---- MODULE Spec2Model ----
(***************************************************************************)
(* Telemetry pipeline of the playwright framework: per-worker collection   *)
(* of network statistics and locator interactions, the worker flush, the   *)
(* end-of-run merge of the worker files, and the sandboxed file helpers.   *)
(***************************************************************************)
EXTENDS Integers, Sequences, FiniteSets, TLC

(* ------------------------------ bounds --------------------------------- *)
NumWorkers == 2
MaxResponses == 2
MaxTests == 2
MaxMerges == 2
MaxCalls == 2
MaxOps == 2
MaxDamaged == 1
MaxUrls == 2
MaxAttempts == 2
MaxEvents == 3
MaxFailures == 2
MaxTime == 12
MaxPaths == 2

Workers == 1..NumWorkers
URLs == {"https://x/y", "https://x/z"}
Codes == {200, 404}

\* the logical objects: a page-level object has no root locator, a component has one
Objects == {[pageObjectName |-> "HomePage", root |-> FALSE],
            [pageObjectName |-> "TopNavigationMenuComponent", root |-> TRUE]}
ObjectNames == {o.pageObjectName : o \in Objects}
InteractionTypes == {"click", "fill"}
Null == [null |-> TRUE]
Boxes == {[x |-> 140, y |-> 90, width |-> 20, height |-> 10],
          [x |-> 100, y |-> 50, width |-> 7, height |-> 3]}
ActionErrors == {"TimeoutError"}

(* ------------------------------ state ---------------------------------- *)
VARIABLES
    RUN_NETWORK_REPORT,  \* config flag handed to NetworkTrafficReporter as `enabled`
    RUN_HEATMAP_REPORT,  \* config flag read by the workers
    flushError,          \* worker -> the write of its teardown that threw, or "none"
    heard,               \* worker -> URL -> the responses its running test has recorded
    wstate,              \* worker -> "none" (never spawned) | "idle" | "running" |
                         \*           "concluded" | "flushed"
    monitored,           \* worker -> the running test registered the response listener
    title,               \* worker -> testInfo.title captured by the listener
    pendingFold,         \* worker -> number of handleTrafficResults calls suspended at attach
    testStats,           \* worker -> per-test RequestMap
    requestTracker,      \* worker -> worker-wide RequestMap
    interactionLogs,     \* worker -> list of InteractionLog
    screenshotTracker,   \* worker -> ScreenshotTracker map
    netDir,              \* reports/network-traffic: [exists, files]
    heatDir,             \* reports/heatmap: [exists, files]
    last,                \* what the last aggregation of each kind did
    reads,               \* worker file -> reads since it was last written
    observed,            \* worker -> URL -> responses delivered to the listener
    nResponses, nTests, nMerges,
    calls,               \* the calls of instrumented methods, in order of invocation
    captures,            \* worker -> object name -> screenshots taken
    clock,               \* Date.now(), in ticks: one per entry logged
    disk,                \* the file system the safe helpers act on: path -> node
    fsLast,              \* the last call of a safe helper and its outcome
    nOps,
    reportUrls,          \* the rows of a merged report handed to the text renderer
    reportHtml,          \* the text of network-report.html, <<>> before it is rendered
    RETRY_ENABLED,       \* config flag read by the retry decorators
    rcall,               \* the call of a method decorated with Retry or APIRetry
    pageEvents,          \* the interactions of one logical object handed to the page renderer
    page,                \* the heatmap page of that object: whether rendered, and its points
    pivotReport,         \* a merged report handed to buildFailuresPivot
    pivot,               \* what buildFailuresPivot made of it
    sessions,            \* SessionManager.sessions: username -> session state, or Null
    storage,             \* the worker's session storage file: username -> stored state, or Null
    dateNow,                 \* Date.now(), in minutes
    lastCall,            \* the last call of the session manager and what it returned
    refused,             \* username -> validateSession has returned false since the session's
                         \*             last initialisation
    sessionManager       \* the module variable of the provider: the instance, or Null

pipeVars == <<RUN_NETWORK_REPORT, RUN_HEATMAP_REPORT, flushError, heard, wstate, monitored, title, pendingFold, testStats,
              requestTracker, interactionLogs, screenshotTracker, netDir, heatDir,
              last, reads, observed, nResponses, nTests, nMerges>>

callVars == <<calls, captures, clock>>

fsVars == <<disk, fsLast, nOps>>

renderVars == <<reportUrls, reportHtml>>

retryVars == <<RETRY_ENABLED, rcall>>

pageVars == <<pageEvents, page>>

pivotVars == <<pivotReport, pivot>>

sessionVars == <<sessions, storage, dateNow, lastCall, refused, sessionManager>>

vars == <<pipeVars, callVars, fsVars, renderVars, retryVars, pageVars, pivotVars, sessionVars>>

(* --------------------------- request maps ------------------------------ *)
EmptyMap == [u \in {} |-> 0]

NewStats == [success |-> 0, fail |-> 0, failures |-> <<>>]

FAIL_FROM == 400

\* a listener that takes only the codes above FAIL_FROM for failures
recordResponseAbove(stats, url, responseCode, testName) ==
    LET base == IF url \in DOMAIN stats THEN stats ELSE stats @@ (url :> NewStats)
        s == base[url]
    IN  IF responseCode > FAIL_FROM
        THEN [base EXCEPT ![url] =
                 [s EXCEPT !.fail = @ + 1,
                           !.failures = Append(@, [testName |-> testName,
                                                   responseCode |-> responseCode])]]
        ELSE [base EXCEPT ![url] = [s EXCEPT !.success = @ + 1]]

\* a test that has recorded no response yet
NoCounts == [u \in URLs |-> [success |-> 0, fail |-> 0]]

\* the page.on('response') listener body
recordResponse(stats, url, responseCode, testName) ==
    LET base == IF url \in DOMAIN stats THEN stats ELSE stats @@ (url :> NewStats)
        s == base[url]
    IN  IF responseCode >= FAIL_FROM
        THEN [base EXCEPT ![url] =
                 [s EXCEPT !.fail = @ + 1,
                           !.failures = Append(@, [testName |-> testName,
                                                   responseCode |-> responseCode])]]
        ELSE [base EXCEPT ![url] = [s EXCEPT !.success = @ + 1]]

\* a merge that keeps the later file's counts instead of adding them
addStatsOverwrite(existing, stats) == stats

\* a merge that adds the counters and leaves the failures list as it was
addStatsCountsOnly(existing, stats) ==
    [success |-> existing.success + stats.success,
     fail |-> existing.fail + stats.fail,
     failures |-> existing.failures]

\* existing.success += ...; existing.fail += ...; existing.failures.push(...)
addStats(existing, stats) ==
    [success |-> existing.success + stats.success,
     fail |-> existing.fail + stats.fail,
     failures |-> existing.failures \o stats.failures]

\* one pass of the loop body over the entries of `map`
mergeMapInto(merged, map) ==
    [u \in DOMAIN merged \cup DOMAIN map |->
        IF u \notin DOMAIN map THEN merged[u]
        ELSE IF u \notin DOMAIN merged THEN map[u]
        ELSE addStats(merged[u], map[u])]

\* a fold that stores the test's entry over the worker's instead of adding it
replaceWorkerStats(tracker, tStats) == tStats @@ tracker

\* for (const [url, tStats] of testStats): clone when new, add otherwise
mergeTestIntoWorker(tracker, tStats) == mergeMapInto(tracker, tStats)

RECURSIVE mergeRequestMaps(_)
mergeRequestMaps(maps) ==
    IF maps = <<>> THEN EmptyMap
    ELSE mergeMapInto(mergeRequestMaps(SubSeq(maps, 1, Len(maps) - 1)), maps[Len(maps)])

\* the place of the first map that holds the URL
firstWith(maps, url) ==
    CHOOSE i \in DOMAIN maps :
        /\ url \in DOMAIN maps[i]
        /\ \A j \in 1..(i - 1) : url \notin DOMAIN maps[j]

\* a merge that stores the first map's own stats object: what is added to the
\* merged entry later is added to that map's entry
sharedStats(stats, mergedEntry) == mergedEntry

\* merged.set(url, { success, fail, failures: [...stats.failures] }): the merged
\* entry is a new object with a new list, and the stats object of the map that
\* held the URL first is, after the merge, what it was
clonedStats(stats, mergedEntry) == stats

\* the maps handed to mergeRequestMaps, as they are when it returns
allMapsAfter(maps) ==
    LET merged == mergeRequestMaps(maps)
    IN  [i \in DOMAIN maps |->
            [u \in DOMAIN maps[i] |->
                IF firstWith(maps, u) = i THEN clonedStats(maps[i][u], merged[u])
                ELSE maps[i][u]]]

(* ------------------------------- files --------------------------------- *)
WorkerNetFile(w) == [prefix |-> "worker-", index |-> w, suffix |-> ".json"]
WorkerShotsFile(w) == [prefix |-> "worker-", index |-> w, suffix |-> "-screenshots.json"]
WorkerLogsFile(w) == [prefix |-> "worker-", index |-> w, suffix |-> "-interactions.json"]
JSON_OUTPUT_NAME == [prefix |-> "network-traffic-merged", index |-> 0, suffix |-> ".json"]
INTERACTIONS_FILENAME == [prefix |-> "interactions-merged", index |-> 0, suffix |-> ".json"]
SCREENSHOTS_FILENAME == [prefix |-> "screenshots-merged", index |-> 0, suffix |-> ".json"]
NETWORK_REPORT_NAME == [prefix |-> "network-report", index |-> 0, suffix |-> ".html"]
HEATMAP_INDEX_NAME == [prefix |-> "index", index |-> 0, suffix |-> ".html"]

endsWith(name, pattern) ==
    \/ name.suffix = pattern
    \/ pattern = ".json" /\ name.suffix \in {"-screenshots.json", "-interactions.json"}

isWorkerNetFile(f) == f.prefix = "worker-" /\ endsWith(f, ".json")
isWorkerLogsFile(f) == f.prefix = "worker-" /\ endsWith(f, "-interactions.json")
isWorkerShotsFile(f) == f.prefix = "worker-" /\ endsWith(f, "-screenshots.json")

AllWorkerFiles ==
    {WorkerNetFile(w) : w \in Workers} \cup {WorkerShotsFile(w) : w \in Workers}
        \cup {WorkerLogsFile(w) : w \in Workers}

NoFiles == [f \in {} |-> 0]
NoDir == [exists |-> FALSE, files |-> NoFiles]

JSONstringify(data) == [kind |-> "json", data |-> data]
parses(content) == content.kind = "json"
JSONparse(content) == content.data

\* FSHelpers.createPathSafe on a directory of the workspace
createPathSafe(dir) == [dir EXCEPT !.exists = TRUE]

\* FSHelpers.writeTextFileSafe: creates the parent directory, then writes
writeTextFileSafe(dir, name, content) ==
    [exists |-> TRUE,
     files |-> [f \in DOMAIN dir.files \cup {name} |->
                   IF f = name THEN content ELSE dir.files[f]]]

\* an aggregation that leaves the files it read in place
keepFilesSafe(dir, names) == dir

\* FSHelpers.deleteFileSafe of every file of `names`
deleteFilesSafe(dir, names) ==
    [dir EXCEPT !.files = [f \in DOMAIN dir.files \ names |-> dir.files[f]]]

\* the orders in which readdir may enumerate a set of names
Orders(S) ==
    {o \in [1..Cardinality(S) -> S] : \A i, j \in 1..Cardinality(S) : o[i] = o[j] => i = j}

Range(s) == {s[i] : i \in DOMAIN s}

\* an aggregation that catches the parse error of a file and goes on
noneCorrupt(dir, files) == 0

\* index of the first file of the enumeration that does not parse, 0 when all do
firstCorrupt(dir, files) ==
    LET bad == {i \in DOMAIN files : ~parses(dir.files[files[i]])}
    IN  IF bad = {} THEN 0 ELSE CHOOSE i \in bad : \A j \in bad : i <= j

NoRun == [op |-> "none", files |-> <<>>, inputs |-> <<>>, error |-> "none",
          wrote |-> FALSE, before |-> NoDir, after |-> NoDir]

\* the last aggregation of each kind, and the outcome of the last end-of-run handler
NoRuns == [network |-> NoRun, interactions |-> NoRun, screenshots |-> NoRun,
           handler |-> "none", error |-> "none"]

(* ------------------------- heatmap aggregation -------------------------- *)
\* an aggregation that puts the entries of each file before those it has (unshift)
RECURSIVE prependLogs(_)
prependLogs(lists) ==
    IF lists = <<>> THEN <<>>
    ELSE lists[Len(lists)] \o prependLogs(SubSeq(lists, 1, Len(lists) - 1))

\* an aggregation that keeps the entries of the file it read last
lastLogs(lists) == IF lists = <<>> THEN <<>> ELSE lists[Len(lists)]

\* aggregatedInteractions.push(...entries) over the files in enumeration order
RECURSIVE concatLogs(_)
concatLogs(lists) ==
    IF lists = <<>> THEN <<>>
    ELSE concatLogs(SubSeq(lists, 1, Len(lists) - 1)) \o lists[Len(lists)]

\* a loop without the `continue`: a later file's record replaces the stored one
keepLast(aggregated, entries) ==
    [k \in DOMAIN aggregated \cup DOMAIN entries |->
        IF k \in DOMAIN entries THEN entries[k] ELSE aggregated[k]]

\* for (const k in entries) { if (aggregatedScreenshots[k]) continue; ... }
keepFirst(aggregated, entries) ==
    [k \in DOMAIN aggregated \cup DOMAIN entries |->
        IF k \in DOMAIN aggregated THEN aggregated[k] ELSE entries[k]]

RECURSIVE mergeScreenshots(_)
mergeScreenshots(maps) ==
    IF maps = <<>> THEN EmptyMap
    ELSE keepFirst(mergeScreenshots(SubSeq(maps, 1, Len(maps) - 1)), maps[Len(maps)])

\* the parsed files as they are once the aggregation has merged them
inputsAfter(op, inputs) ==
    IF op \in {"aggregateInteractions", "aggregateScreenshots"} THEN inputs
    ELSE allMapsAfter(inputs)

\* what each aggregation makes of the parsed files
mergeOf(op, inputs) ==
    IF op = "aggregateInteractions" THEN concatLogs(inputs)
    ELSE IF op = "aggregateScreenshots" THEN mergeScreenshots(inputs)
    ELSE mergeRequestMaps(inputs)

\* The common shape of the three aggregations: list, read + parse + delete each
\* file in turn, merge, write. `always` is TRUE for the aggregation that has no
\* early return on an empty listing.
aggregate(op, dir, files, target, always) ==
    LET bad == firstCorrupt(dir, files)
        inputs == [i \in DOMAIN files |-> JSONparse(dir.files[files[i]])]
        consumed == deleteFilesSafe(dir, Range(files))
        run == [op |-> op, files |-> files, inputs |-> <<>>, error |-> "none",
                wrote |-> FALSE, before |-> dir, after |-> dir]
    IN  IF ~dir.exists
        THEN [run EXCEPT !.error = IF always THEN "ENOENT" ELSE "none"]
        ELSE IF files = <<>> /\ ~always
        THEN run
        ELSE IF bad # 0
        THEN [run EXCEPT !.error = "SyntaxError",
                         !.after = deleteFilesSafe(dir, {files[i] : i \in 1..(bad - 1)})]
        ELSE [run EXCEPT !.inputs = inputsAfter(op, inputs), !.wrote = TRUE,
                         !.after = writeTextFileSafe(consumed, target,
                                                     JSONstringify(mergeOf(op, inputs)))]

\* the files an aggregation read
readBy(run) ==
    IF run.error = "SyntaxError"
    THEN {run.files[i] : i \in 1..firstCorrupt(run.before, run.files)}
    ELSE IF run.error = "none" /\ run.before.exists THEN Range(run.files) ELSE {}

netWorkerFiles(dir) == {f \in DOMAIN dir.files : isWorkerNetFile(f)}
logsWorkerFiles(dir) == {f \in DOMAIN dir.files : isWorkerLogsFile(f)}
shotsWorkerFiles(dir) == {f \in DOMAIN dir.files : isWorkerShotsFile(f)}

\* NetworkTrafficReporter.aggregateAllTraffic
aggregateAllTraffic(dir, files) ==
    aggregate("aggregateAllTraffic", dir, files, JSON_OUTPUT_NAME, TRUE)

\* monitor.ts aggregateWorkerNetworkLogs, the global teardown's entry point
aggregateWorkerNetworkLogs(dir, files) ==
    aggregate("aggregateWorkerNetworkLogs", dir, files, JSON_OUTPUT_NAME, TRUE)

\* HeatmapReporter.aggregateInteractions
aggregateInteractions(dir, files) ==
    aggregate("aggregateInteractions", dir, files, INTERACTIONS_FILENAME, FALSE)

\* HeatmapReporter.aggregateScreenshots
aggregateScreenshots(dir, files) ==
    aggregate("aggregateScreenshots", dir, files, SCREENSHOTS_FILENAME, FALSE)

(* --------------------------- heatmap rendering -------------------------- *)
\* the distinct values of f over a list, in order of first appearance
RECURSIVE distinct(_)
distinct(list) ==
    IF list = <<>> THEN <<>>
    ELSE LET front == distinct(SubSeq(list, 1, Len(list) - 1))
             v == list[Len(list)]
         IN  IF v \in Range(front) THEN front ELSE Append(front, v)


\* groupLogsBy(aggReport, 'pageObjectName'): the keys, in insertion order
groupNames(logs) == distinct([i \in DOMAIN logs |-> logs[i].pageObjectName])
groupLogs(logs, name) == SelectSeq(logs, LAMBDA l : l.pageObjectName = name)

\* a summary that takes every event for a box of its own
summarizeEach(events) ==
    [i \in DOMAIN events |->
        [boundingBox |-> events[i].boundingBox,
         counts |-> (events[i].type :> 1),
         value |-> 1]]

\* summarizeEvents: one summary per distinct bounding box
summarizeEvents(events) ==
    LET boxes == distinct([i \in DOMAIN events |-> events[i].boundingBox])
    IN  [i \in DOMAIN boxes |->
            LET same == SelectSeq(events, LAMBDA e : e.boundingBox = boxes[i])
                types == {same[j].type : j \in DOMAIN same}
            IN  [boundingBox |-> boxes[i],
                 counts |-> [t \in types |->
                               Len(SelectSeq(same, LAMBDA e : e.type = t))],
                 value |-> Len(same)]]

\* a projection that cuts the half off instead of rounding
truncHalf(a, o, size) == a - o + (size \div 2)

\* Math.round(a - o + size / 2) on integers
roundHalf(a, o, size) == (2 * (a - o) + size + 1) \div 2

heatmapPoints(logs, offsets) ==
    LET summary == summarizeEvents(logs)
    IN  [i \in DOMAIN summary |->
            [x |-> roundHalf(summary[i].boundingBox.x, offsets.x,
                             summary[i].boundingBox.width),
             y |-> roundHalf(summary[i].boundingBox.y, offsets.y,
                             summary[i].boundingBox.height),
             counts |-> summary[i].counts,
             value |-> summary[i].value]]

\* generateHeatmaps.ts: one point of value 2 per logged interaction
flatPoints(logs, offsets) ==
    [i \in DOMAIN logs |->
        [x |-> roundHalf(logs[i].boundingBox.x, offsets.x, logs[i].boundingBox.width),
         y |-> roundHalf(logs[i].boundingBox.y, offsets.y, logs[i].boundingBox.height),
         value |-> 2]]

HeatmapPage(name) == [prefix |-> name, index |-> 0, suffix |-> "/heatmap.html"]

\* the loop of generateHeatmaps over the groups; stops at the first group that throws
RECURSIVE renderGroups(_, _, _, _, _)
renderGroups(flat, dir, names, logs, shots) ==
    IF names = <<>> THEN [dir |-> dir, error |-> "none"]
    ELSE LET name == Head(names)
         IN  IF name \notin DOMAIN shots
             THEN [dir |-> dir, error |-> "TypeError"]
             ELSE renderGroups(flat,
                      writeTextFileSafe(dir, HeatmapPage(name),
                          [kind |-> "html",
                           data |-> IF flat
                                    THEN flatPoints(groupLogs(logs, name),
                                                    shots[name].boundingBox)
                                    ELSE heatmapPoints(groupLogs(logs, name),
                                                       shots[name].boundingBox)]),
                      Tail(names), logs, shots)

\* HeatmapReporter.generateHeatmaps
generateHeatmaps(dir) ==
    IF ~dir.exists \/ INTERACTIONS_FILENAME \notin DOMAIN dir.files
          \/ SCREENSHOTS_FILENAME \notin DOMAIN dir.files
    THEN [dir |-> dir, error |-> "ENOENT"]
    ELSE IF ~parses(dir.files[INTERACTIONS_FILENAME])
            \/ ~parses(dir.files[SCREENSHOTS_FILENAME])
    THEN [dir |-> dir, error |-> "SyntaxError"]
    ELSE LET aggReport == JSONparse(dir.files[INTERACTIONS_FILENAME])
             aggScreenshots == JSONparse(dir.files[SCREENSHOTS_FILENAME])
             names == groupNames(aggReport)
             pages == renderGroups(FALSE, dir, names, aggReport, aggScreenshots)
         IN  IF pages.error # "none" THEN pages
             ELSE [dir |-> writeTextFileSafe(pages.dir, HEATMAP_INDEX_NAME,
                                             [kind |-> "html", data |-> names]),
                   error |-> "none"]

\* generateHeatmaps.ts, after its two aggregations: no index page
generateHeatmapsFlat(dir) ==
    IF ~dir.exists \/ INTERACTIONS_FILENAME \notin DOMAIN dir.files
          \/ SCREENSHOTS_FILENAME \notin DOMAIN dir.files
    THEN [dir |-> dir, error |-> "ENOENT"]
    ELSE IF ~parses(dir.files[INTERACTIONS_FILENAME])
            \/ ~parses(dir.files[SCREENSHOTS_FILENAME])
    THEN [dir |-> dir, error |-> "SyntaxError"]
    ELSE LET aggReport == JSONparse(dir.files[INTERACTIONS_FILENAME])
             aggScreenshots == JSONparse(dir.files[SCREENSHOTS_FILENAME])
         IN  renderGroups(TRUE, dir, groupNames(aggReport), aggReport,
                          aggScreenshots)

NO_FAILURES == "<p>No failures recorded.</p>"

\* the test names of the report's failure entries
failedTests(report) ==
    UNION {{report[u].failures[i].testName : i \in DOMAIN report[u].failures} :
              u \in DOMAIN report}

\* Test titles are numbers that stand for their text. This one stands for a
\* title that is the name of a member of Object.prototype ("constructor",
\* "toString", "valueOf"), which every object literal inherits.
INHERITED_TITLE == 0

\* const pivot = {}; if (!pivot[t]) pivot[t] = {}; ... Object.entries(pivot):
\* for an inherited name pivot[t] is the inherited member, so no own property is
\* made for it and Object.entries does not list it
ownKeys(names) == {t \in names : t # INHERITED_TITLE}

\* a pivot that always builds the table, one column per URL of the report
buildFailuresPivotAll(report) ==
    [table |-> TRUE, text |-> "",
     columns |-> DOMAIN report,
     rows |-> [t \in failedTests(report) |->
                 [u \in DOMAIN report |->
                     Cardinality({i \in DOMAIN report[u].failures :
                                     report[u].failures[i].testName = t})]]]

\* buildFailuresPivot: the message when no URL has a failure; otherwise a table
\* with one column per failed URL and one row per test name, each cell the number
\* of that test's failures on that URL
buildFailuresPivot(report) ==
    LET failedUrls == {u \in DOMAIN report : report[u].fail > 0}
        tests == ownKeys(failedTests(report))
    IN  IF failedUrls = {}
        THEN [table |-> FALSE, text |-> NO_FAILURES, columns |-> {},
              rows |-> [t \in {} |-> 0]]
        ELSE [table |-> TRUE, text |-> "",
              columns |-> failedUrls,
              rows |-> [t \in tests |->
                          [u \in failedUrls |->
                              Cardinality({i \in DOMAIN report[u].failures :
                                              report[u].failures[i].testName = t})]]]

\* a generator that consumes the merged file as the merger consumes worker files
generateAndConsume(dir) ==
    IF ~dir.exists \/ JSON_OUTPUT_NAME \notin DOMAIN dir.files
    THEN [dir |-> createPathSafe(dir), error |-> "ENOENT"]
    ELSE IF ~parses(dir.files[JSON_OUTPUT_NAME])
    THEN [dir |-> dir, error |-> "SyntaxError"]
    ELSE [dir |-> deleteFilesSafe(
                      writeTextFileSafe(dir, NETWORK_REPORT_NAME,
                          [kind |-> "html",
                           data |-> JSONparse(dir.files[JSON_OUTPUT_NAME]),
                           pivotSection |->
                               buildFailuresPivot(JSONparse(dir.files[JSON_OUTPUT_NAME]))]),
                      {JSON_OUTPUT_NAME}),
          error |-> "none"]

\* NetworkReportGenerator.generate: reads the merged file, writes the report
generate(dir) ==
    IF ~dir.exists \/ JSON_OUTPUT_NAME \notin DOMAIN dir.files
    THEN [dir |-> createPathSafe(dir), error |-> "ENOENT"]
    ELSE IF ~parses(dir.files[JSON_OUTPUT_NAME])
    THEN [dir |-> dir, error |-> "SyntaxError"]
    ELSE [dir |-> writeTextFileSafe(dir, NETWORK_REPORT_NAME,
                      [kind |-> "html",
                       data |-> JSONparse(dir.files[JSON_OUTPUT_NAME]),
                       pivotSection |->
                           buildFailuresPivot(JSONparse(dir.files[JSON_OUTPUT_NAME]))]),
          error |-> "none"]

(* ------------------------- the safe file helpers ------------------------ *)
\* A path is the sequence of its components below the file-system root. A node of
\* the disk is a directory, a file with its text, or a symbolic link to a path.
Dir == [kind |-> "dir", to |-> <<>>, data |-> ""]
File(data) == [kind |-> "file", to |-> <<>>, data |-> data]
Link(to) == [kind |-> "link", to |-> to, data |-> ""]

\* path.resolve(process.cwd())
WORKSPACE_ROOT == <<"ws">>

Front(path) == SubSeq(path, 1, Len(path) - 1)

IsPrefix(a, b) == Len(a) <= Len(b) /\ SubSeq(b, 1, Len(a)) = a

\* the path the kernel reaches from directory `cur` along `rest`, following every
\* symbolic link; when a component is missing, the path it would have and the
\* number of components that are missing from there on
RECURSIVE walk(_, _, _)
walk(fs, cur, rest) ==
    IF rest = <<>> THEN [ok |-> TRUE, path |-> cur, missing |-> 0]
    ELSE LET next == Append(cur, Head(rest))
         IN  IF next \notin DOMAIN fs
             THEN [ok |-> FALSE, path |-> next \o Tail(rest), missing |-> Len(rest)]
             ELSE IF fs[next].kind = "link"
             THEN LET t == walk(fs, <<>>, fs[next].to)
                  IN  IF t.ok THEN walk(fs, t.path, Tail(rest))
                      ELSE [ok |-> FALSE, path |-> t.path \o Tail(rest),
                            missing |-> t.missing + Len(rest) - 1]
             ELSE IF fs[next].kind = "file" /\ Tail(rest) # <<>>
             THEN [ok |-> FALSE, path |-> next \o Tail(rest), missing |-> Len(rest) + 1]
             ELSE walk(fs, next, Tail(rest))

\* fs.realpathSync and fs.existsSync
realpathSync(fs, abs) == walk(fs, <<>>, abs).path
existsSync(fs, abs) == walk(fs, <<>>, abs).ok

\* fs.lstatSync(abs).isSymbolicLink(): the last component is not followed; FALSE
\* also where lstatSync throws, which the callers ignore
isSymbolicLink(fs, abs) ==
    /\ abs # <<>>
    /\ existsSync(fs, Front(abs))
    /\ LET node == Append(realpathSync(fs, Front(abs)), abs[Len(abs)])
       IN  node \in DOMAIN fs /\ fs[node].kind = "link"

\* path.resolve of a relative or absolute path, given as its segments
RECURSIVE normalize(_, _)
normalize(base, segs) ==
    IF segs = <<>> THEN base
    ELSE IF Head(segs) = ".."
    THEN normalize(IF base = <<>> THEN base ELSE Front(base), Tail(segs))
    ELSE normalize(Append(base, Head(segs)), Tail(segs))

resolve(targetPath) ==
    normalize(IF targetPath.abs THEN <<>> ELSE WORKSPACE_ROOT, targetPath.segs)

\* the loops `while (!fs.existsSync(cur))`: the length of the nearest existing ancestor
nearestExisting(fs, abs) ==
    CHOOSE k \in 0..Len(abs) :
        /\ existsSync(fs, SubSeq(abs, 1, k))
        /\ \A j \in (k + 1)..Len(abs) : ~existsSync(fs, SubSeq(abs, 1, j))

\* FSHelpers.canonicalizeTarget
canonicalizeTarget(fs, abs) ==
    IF existsSync(fs, abs) THEN realpathSync(fs, abs)
    ELSE LET k == nearestExisting(fs, abs)
         IN  realpathSync(fs, SubSeq(abs, 1, k)) \o SubSeq(abs, k + 1, Len(abs))

\* FSHelpers.isInsideWorkspace; WORKSPACE_REAL is the workspace root, which is no link
isInsideWorkspace(fs, abs) ==
    LET canonical == canonicalizeTarget(fs, abs)
    IN  canonical = WORKSPACE_ROOT
          \/ (IsPrefix(WORKSPACE_ROOT, canonical) /\ canonical # WORKSPACE_ROOT)

\* the `for (const seg of segments)` loop of hasSymlinkInExistingPath
RECURSIVE symlinkBelow(_, _, _)
symlinkBelow(fs, check, segments) ==
    IF segments = <<>> THEN FALSE
    ELSE LET next == Append(check, Head(segments))
         IN  IF ~existsSync(fs, next) THEN FALSE
             ELSE IF isSymbolicLink(fs, next) THEN TRUE
             ELSE symlinkBelow(fs, next, Tail(segments))

\* FSHelpers.hasSymlinkInExistingPath
hasSymlinkInExistingPath(fs, abs) ==
    LET k == nearestExisting(fs, abs)
        ancestor == SubSeq(abs, 1, k)
    IN  isSymbolicLink(fs, ancestor)
          \/ symlinkBelow(fs, ancestor, SubSeq(abs, k + 1, Len(abs)))

\* FSHelpers.assertSafePath: the error it throws, "none" when it returns
assertSafePath(fs, abs) ==
    IF ~isInsideWorkspace(fs, canonicalizeTarget(fs, abs)) THEN "outside workspace"
    ELSE IF hasSymlinkInExistingPath(fs, abs) THEN "contains a symlink"
    ELSE "none"

Outcome(fs, error, result) == [disk |-> fs, error |-> error, result |-> result]

\* fs.mkdirSync(abs, { recursive: true }) from directory `cur` along `rest`
RECURSIVE mkdirSync(_, _, _)
mkdirSync(fs, cur, rest) ==
    IF rest = <<>> THEN Outcome(fs, "none", "")
    ELSE LET next == Append(cur, Head(rest))
         IN  IF next \notin DOMAIN fs
             THEN mkdirSync([p \in DOMAIN fs \cup {next} |->
                                IF p = next THEN Dir ELSE fs[p]], next, Tail(rest))
             ELSE IF fs[next].kind = "file" THEN Outcome(fs, "ENOTDIR", "")
             ELSE IF fs[next].kind = "link"
             THEN IF existsSync(fs, next)
                  THEN mkdirSync(fs, realpathSync(fs, next), Tail(rest))
                  ELSE Outcome(fs, "EEXIST", "")
             ELSE mkdirSync(fs, next, Tail(rest))

\* FSHelpers.createPathSafe
FS_createPathSafe(fs, targetPath) ==
    LET abs == resolve(targetPath)
        unsafe == assertSafePath(fs, abs)
    IN  IF unsafe # "none" THEN Outcome(fs, unsafe, "")
        ELSE IF existsSync(fs, abs) THEN Outcome(fs, "none", "")
        ELSE mkdirSync(fs, <<>>, abs)

\* FSHelpers.readDirSafe
FS_readDirSafe(fs, targetPath) ==
    LET abs == resolve(targetPath)
        unsafe == assertSafePath(fs, abs)
        real == realpathSync(fs, abs)
    IN  IF unsafe # "none" THEN Outcome(fs, unsafe, "")
        ELSE IF ~existsSync(fs, abs) THEN Outcome(fs, "ENOENT", "")
        ELSE IF real # <<>> /\ fs[real].kind # "dir" THEN Outcome(fs, "ENOTDIR", "")
        ELSE Outcome(fs, "none",
                     {p[Len(p)] : p \in {q \in DOMAIN fs : q # <<>> /\ Front(q) = real}})

\* FSHelpers.readFileSafe
FS_readFileSafe(fs, targetPath) ==
    LET abs == resolve(targetPath)
        unsafe == assertSafePath(fs, abs)
        real == realpathSync(fs, abs)
    IN  IF unsafe # "none" THEN Outcome(fs, unsafe, "")
        ELSE IF ~existsSync(fs, abs) THEN Outcome(fs, "ENOENT", "")
        ELSE IF real = <<>> \/ fs[real].kind # "file" THEN Outcome(fs, "EISDIR", "")
        ELSE Outcome(fs, "none", fs[real].data)

\* FSHelpers.deleteFileSafe: unlinkSync removes the name, it follows no final link
FS_deleteFileSafe(fs, targetPath) ==
    LET abs == resolve(targetPath)
        unsafe == assertSafePath(fs, abs)
        node == Append(realpathSync(fs, Front(abs)), abs[Len(abs)])
    IN  IF unsafe # "none" THEN Outcome(fs, unsafe, "")
        ELSE IF ~existsSync(fs, abs) THEN Outcome(fs, "none", "")
        ELSE IF abs = <<>> \/ fs[node].kind = "dir" THEN Outcome(fs, "EPERM", "")
        ELSE Outcome([p \in DOMAIN fs \ {node} |-> fs[p]], "none", "")

\* fs.writeFileSync(abs, content): opens the file the path leads to, through links,
\* and creates it when only its last component is missing
writeFileSync(fs, abs, content) ==
    LET w == walk(fs, <<>>, abs)
    IN  IF w.ok
        THEN IF w.path = <<>> \/ fs[w.path].kind # "file" THEN Outcome(fs, "EISDIR", "")
             ELSE Outcome([fs EXCEPT ![w.path] = File(content)], "none", "")
        ELSE IF w.missing = 1
        THEN Outcome([p \in DOMAIN fs \cup {w.path} |->
                         IF p = w.path THEN File(content) ELSE fs[p]], "none", "")
        ELSE Outcome(fs, "ENOENT", "")

\* FSHelpers.writeTextFileSafe
FS_writeTextFileSafe(fs, filePath, content) ==
    LET absPath == resolve(filePath)
        parent == FS_createPathSafe(fs, [abs |-> TRUE, segs |-> Front(absPath)])
    IN  IF absPath = <<>> THEN Outcome(fs, "EISDIR", "")
        ELSE IF parent.error # "none" THEN parent
        ELSE writeFileSync(parent.disk, absPath, content)

\* the disk before the helpers are used: the workspace with its report directory
\* and a file in it, and next to the workspace a directory whose name starts with
\* the workspace's, with a file in it
PlainDisk ==
    (<<"ws">> :> Dir) @@ (<<"ws", "reports">> :> Dir)
        @@ (<<"ws", "reports", "a.json">> :> File("report"))
        @@ (<<"ws2">> :> Dir) @@ (<<"ws2", "a.json">> :> File("secret"))

\* what may stand at ws/link and at ws/reports/l.json
DirLinks == {<<"ws2">>, <<"ws", "reports">>}
FileLinks == {<<"ws2", "a.json">>, <<"ws2", "new.json">>, <<"ws", "reports", "a.json">>}

Disks ==
    {PlainDisk} \cup {(<<"ws", "link">> :> Link(d)) @@ PlainDisk : d \in DirLinks}
        \cup {(<<"ws", "reports", "l.json">> :> Link(f)) @@ PlainDisk : f \in FileLinks}
        \cup {(<<"ws", "link">> :> Link(d)) @@ (<<"ws", "reports", "l.json">> :> Link(f))
                  @@ PlainDisk : d \in DirLinks, f \in FileLinks}

\* the paths handed to the helpers
Rel(segs) == [abs |-> FALSE, segs |-> segs]
Abs(segs) == [abs |-> TRUE, segs |-> segs]

TargetPaths ==
    {Rel(<<"reports", "a.json">>), Rel(<<"reports", "l.json">>),
     Rel(<<"reports", "new.json">>), Rel(<<"link", "a.json">>),
     Rel(<<"link", "new.json">>), Rel(<<"..", "ws2", "a.json">>),
     Abs(<<"ws2", "a.json">>), Rel(<<"reports">>), Rel(<<"link">>),
     Rel(<<"tmp", "out">>), Abs(<<"ws2">>)}

Contents == {"written"}

NoOp == [op |-> "none", path |-> Rel(<<>>), error |-> "none", result |-> "",
         before |-> PlainDisk]

InitDisk ==
    /\ disk = PlainDisk
    /\ fsLast = NoOp
    /\ nOps = 0

\* a call of one of the helpers
Call(op, targetPath, out) ==
    /\ nOps < MaxOps
    /\ nOps' = nOps + 1
    /\ disk' = out.disk
    /\ fsLast' = [op |-> op, path |-> targetPath, error |-> out.error,
                  result |-> out.result, before |-> disk]
    /\ UNCHANGED <<pipeVars, callVars, renderVars, retryVars, pageVars, pivotVars, sessionVars>>

CreatePath(targetPath) ==
    Call("createPathSafe", targetPath, FS_createPathSafe(disk, targetPath))

ReadDir(targetPath) ==
    Call("readDirSafe", targetPath, FS_readDirSafe(disk, targetPath))

ReadFile(targetPath) ==
    Call("readFileSafe", targetPath, FS_readFileSafe(disk, targetPath))

DeleteFile(targetPath) ==
    Call("deleteFileSafe", targetPath, FS_deleteFileSafe(disk, targetPath))

WriteTextFile(targetPath, content) ==
    Call("writeTextFileSafe", targetPath, FS_writeTextFileSafe(disk, targetPath, content))

SCREENSHOT_FILE == "screenshot.png"

\* HEATMAP_CONFIG.REPORT_OUTPUT_PATH, here the report directory of the disk
HEATMAP_OUTPUT_PATH == <<"reports">>

\* the names page objects may hand to their base class, as path segments: a plain
\* name, and names that path.join takes out of the report directory
PageObjectNames ==
    {<<"HomePage">>, <<"..", "..", "ws2", "HomePage">>, <<"..", "link", "HomePage">>}

\* screenshot.ts takeScreenshot(target, dir, filename): fs.existsSync and
\* fs.mkdirSync on dir, then target.screenshot({ path }) writes the file
FS_takeScreenshot(fs, dir, filename) ==
    LET abs == resolve(dir)
        made == IF existsSync(fs, abs) THEN Outcome(fs, "none", "")
                ELSE mkdirSync(fs, <<>>, abs)
    IN  IF made.error # "none" THEN made
        ELSE writeFileSync(made.disk, Append(abs, filename), "png")

\* takeHeatmapScreenshot(element, pageObjectName), up to the screenshot
TakeScreenshot(pageObjectName) ==
    Call("takeScreenshot", Rel(HEATMAP_OUTPUT_PATH \o pageObjectName),
         FS_takeScreenshot(disk, Rel(HEATMAP_OUTPUT_PATH \o pageObjectName),
                           SCREENSHOT_FILE))

(* ------------------------------ workers --------------------------------- *)
NotRendered == [rendered |-> FALSE, points |-> <<>>]
NoPivot == pivotReport = EmptyMap /\ pivot = [built |-> FALSE]
Users == {"admin"}
NoSessionCall == [op |-> "none"]
NoSessions ==
    /\ sessions = [u \in Users |-> Null]
    /\ storage = [u \in Users |-> Null]
    /\ dateNow = 1
    /\ lastCall = NoSessionCall
    /\ refused = [u \in Users |-> FALSE]
    /\ sessionManager = Null
NoPage == pageEvents = <<>> /\ page = NotRendered

NoRender == reportUrls = <<>> /\ reportHtml = <<>>

\* no decorated call has been made
NoCall == [pc |-> "none"]
NoRetry == RETRY_ENABLED = TRUE /\ rcall = NoCall

InitPipeline ==
    /\ wstate = [w \in Workers |-> "none"]
    /\ monitored = [w \in Workers |-> FALSE]
    /\ title = [w \in Workers |-> 0]
    /\ pendingFold = [w \in Workers |-> 0]
    /\ testStats = [w \in Workers |-> EmptyMap]
    /\ requestTracker = [w \in Workers |-> EmptyMap]
    /\ interactionLogs = [w \in Workers |-> <<>>]
    /\ screenshotTracker = [w \in Workers |-> EmptyMap]
    /\ netDir = NoDir
    /\ heatDir = NoDir
    /\ last = NoRuns
    /\ reads = [f \in AllWorkerFiles |-> 0]
    /\ observed = [w \in Workers |-> [u \in URLs |-> 0]]
    /\ nResponses = 0
    /\ nTests = 0
    /\ nMerges = 0
    /\ flushError = [w \in Workers |-> "none"]
    /\ heard = [w \in Workers |-> NoCounts]
    /\ calls = <<>>
    /\ captures = [w \in Workers |-> [n \in ObjectNames |-> 0]]
    /\ clock = 0
    /\ InitDisk

InitCommon == InitPipeline /\ NoRender /\ NoRetry /\ NoPage /\ NoPivot /\ NoSessions

\* testMonitor, before use(page): monitorTraffic registers the listener on the
\* test's page unless ignoreNetworkErrors is set
StartTest(w, ignoreNetworkErrors) ==
    /\ wstate[w] \in {"none", "idle"}
    /\ nMerges = 0
    /\ \A v \in Workers : v < w => wstate[v] = "flushed"
    /\ nTests < MaxTests
    /\ nTests' = nTests + 1
    /\ wstate' = [wstate EXCEPT ![w] = "running"]
    /\ monitored' = [monitored EXCEPT ![w] = ~ignoreNetworkErrors]
    /\ title' = [title EXCEPT ![w] = nTests + 1]
    /\ UNCHANGED callVars
    /\ UNCHANGED <<fsVars, renderVars, retryVars, pageVars, pivotVars, sessionVars>>
    /\ UNCHANGED <<RUN_NETWORK_REPORT, RUN_HEATMAP_REPORT, heard, flushError, pendingFold, testStats, requestTracker,
                   interactionLogs, screenshotTracker, netDir, heatDir,
                   last, reads, observed, nResponses, nMerges>>

\* one response added to a pair of counts, as the listener counts it
tally(counts, responseCode) ==
    IF responseCode >= FAIL_FROM THEN [counts EXCEPT !.fail = @ + 1]
    ELSE [counts EXCEPT !.success = @ + 1]

\* a 'response' event of the page, delivered while the page is open
Response(w, url, responseCode) ==
    /\ wstate[w] \in {"running", "concluded"}
    /\ monitored[w]
    /\ nResponses < MaxResponses
    /\ nResponses' = nResponses + 1
    /\ testStats' = [testStats EXCEPT
                        ![w] = recordResponse(@, url, responseCode, title[w])]
    /\ observed' = [observed EXCEPT ![w][url] = @ + 1]
    /\ heard' = IF wstate[w] = "running"
                THEN [heard EXCEPT ![w][url] = tally(@, responseCode)]
                ELSE heard
    /\ UNCHANGED callVars
    /\ UNCHANGED <<fsVars, renderVars, retryVars, pageVars, pivotVars, sessionVars>>
    /\ UNCHANGED <<RUN_NETWORK_REPORT, RUN_HEATMAP_REPORT, flushError, wstate, monitored, title, pendingFold,
                   requestTracker, interactionLogs, screenshotTracker, netDir,
                   heatDir, last, reads, nTests, nMerges>>

hasFailures(stats) == \E u \in DOMAIN stats : stats[u].fail > 0

\* Object.fromEntries([...testStats.entries()].filter(([_, stats]) => stats.fail > 0))
failedStatsObj(stats) == [u \in {v \in DOMAIN stats : stats[v].fail > 0} |-> stats[u]]

\* testMonitor, after use(page): handleTrafficResults(testInfo) is called and not
\* awaited. With failures it suspends at `await testInfo.attach`; without, it
\* runs through mergeTestIntoWorker at once.
ConcludeTest(w) ==
    /\ wstate[w] = "running"
    /\ \A c \in DOMAIN calls : calls[c].worker = w => calls[c].pc \in {"returned", "threw"}
    /\ wstate' = [wstate EXCEPT ![w] = "concluded"]
    /\ heard' = [heard EXCEPT ![w] = NoCounts]
    /\ IF ~monitored[w]
       THEN UNCHANGED <<pendingFold, testStats, requestTracker>>
       ELSE IF hasFailures(testStats[w])
       THEN /\ pendingFold' = [pendingFold EXCEPT ![w] = @ + 1]
            /\ UNCHANGED <<testStats, requestTracker>>
       ELSE /\ requestTracker' = [requestTracker EXCEPT
                                     ![w] = mergeTestIntoWorker(@, testStats[w])]
            /\ testStats' = [testStats EXCEPT ![w] = EmptyMap]
            /\ UNCHANGED pendingFold
    /\ UNCHANGED callVars
    /\ UNCHANGED <<fsVars, renderVars, retryVars, pageVars, pivotVars, sessionVars>>
    /\ UNCHANGED <<RUN_NETWORK_REPORT, RUN_HEATMAP_REPORT, flushError, monitored, title, interactionLogs,
                   screenshotTracker, netDir, heatDir, last, reads,
                   observed, nResponses, nTests, nMerges>>

\* the continuation of handleTrafficResults after the attach resolves
ResumeTrafficResults(w) ==
    /\ pendingFold[w] > 0
    /\ wstate[w] # "flushed"
    /\ pendingFold' = [pendingFold EXCEPT ![w] = @ - 1]
    /\ requestTracker' = [requestTracker EXCEPT
                             ![w] = mergeTestIntoWorker(@, testStats[w])]
    /\ testStats' = [testStats EXCEPT ![w] = EmptyMap]
    /\ UNCHANGED callVars
    /\ UNCHANGED <<fsVars, renderVars, retryVars, pageVars, pivotVars, sessionVars>>
    /\ UNCHANGED <<RUN_NETWORK_REPORT, RUN_HEATMAP_REPORT, heard, flushError, wstate, monitored, title, interactionLogs,
                   screenshotTracker, netDir, heatDir, last, reads,
                   observed, nResponses, nTests, nMerges>>

\* the page fixture's teardown, which follows testMonitor's
ClosePage(w) ==
    /\ wstate[w] = "concluded"
    /\ wstate' = [wstate EXCEPT ![w] = "idle"]
    /\ UNCHANGED callVars
    /\ UNCHANGED <<fsVars, renderVars, retryVars, pageVars, pivotVars, sessionVars>>
    /\ UNCHANGED <<RUN_NETWORK_REPORT, RUN_HEATMAP_REPORT, heard, flushError, monitored, title, pendingFold, testStats,
                   requestTracker, interactionLogs, screenshotTracker, netDir,
                   heatDir, last, reads, observed, nResponses, nTests,
                   nMerges>>

\* the writes of a worker's teardown
Writes == {"network", "screenshots", "interactions"}

\* FSHelpers.writeTextFileSafe when fs.writeFileSync may throw (disk full, no
\* permission): the parent directory is there, the file is not written
writeOrThrow(dir, name, content, throws) ==
    IF throws THEN [dir |-> createPathSafe(dir), error |-> "EIO"]
    ELSE [dir |-> writeTextFileSafe(dir, name, content), error |-> "none"]

\* saveWorkerTraffic(workerIndex)
saveWorkerTraffic(dir, w, failing) ==
    writeOrThrow(createPathSafe(dir), WorkerNetFile(w),
                 JSONstringify(requestTracker[w]), failing = "network")

\* saveInteractionsToDisk(workerIndex): the screenshots file, then the
\* interactions file
saveInteractionsToDisk(dir, w, failing) ==
    IF ~RUN_HEATMAP_REPORT THEN [dir |-> dir, error |-> "none"]
    ELSE LET shots == writeOrThrow(createPathSafe(dir), WorkerShotsFile(w),
                                   JSONstringify(screenshotTracker[w]),
                                   failing = "screenshots")
         IN  IF shots.error # "none" THEN shots
             ELSE writeOrThrow(shots.dir, WorkerLogsFile(w),
                               JSONstringify(interactionLogs[w]),
                               failing = "interactions")

\* the two calls of the worker-scoped fixture's teardown, one after the other
workerTeardown(net, heat, w, failing) ==
    LET traffic == saveWorkerTraffic(net, w, failing)
        heatmap == IF traffic.error = "none"
                   THEN saveInteractionsToDisk(heat, w, failing)
                   ELSE [dir |-> heat, error |-> "none"]
    IN  [net |-> traffic.dir, heat |-> heatmap.dir,
         threw |-> IF traffic.error # "none" THEN "network"
                   ELSE IF heatmap.error # "none" THEN failing
                   ELSE "none"]

\* the worker-scoped fixture's teardown; `failing` is the write that throws if it
\* is attempted
WorkerTeardown(w, failing) ==
    /\ wstate[w] = "idle"
    /\ \A v \in Workers : v < w => wstate[v] = "flushed"
    /\ wstate' = [wstate EXCEPT ![w] = "flushed"]
    /\ LET out == workerTeardown(netDir, heatDir, w, failing)
       IN  /\ netDir' = out.net
           /\ heatDir' = out.heat
           /\ flushError' = [flushError EXCEPT ![w] = out.threw]
    /\ reads' = [f \in AllWorkerFiles |->
                    IF f.index = w /\ (f \in DOMAIN netDir'.files \/ f \in DOMAIN heatDir'.files)
                    THEN 0 ELSE reads[f]]
    /\ UNCHANGED callVars
    /\ UNCHANGED <<fsVars, renderVars, retryVars, pageVars, pivotVars, sessionVars>>
    /\ UNCHANGED <<RUN_NETWORK_REPORT, RUN_HEATMAP_REPORT, heard, monitored, title,
                   pendingFold, testStats, requestTracker, interactionLogs,
                   screenshotTracker, last, observed, nResponses, nTests, nMerges>>

(* --------------------------- instrumentation ---------------------------- *)
\* screenshot.ts getTrackedScreenshots
getTrackedScreenshots(w) == screenshotTracker[w]

\* takeHeatmapScreenshot, from the end of `await takeScreenshot` on: the origin of
\* a page is (0, 0), that of a component its root's box when it has one
trackedRecord(obj, rootBox) ==
    [screenshotPath |-> <<obj.pageObjectName, SCREENSHOT_FILE>>,
     boundingBox |-> IF obj.root /\ rootBox # Null
                     THEN [x |-> rootBox.x, y |-> rootBox.y]
                     ELSE [x |-> 0, y |-> 0]]

\* a decorator that queries the box once the action is over
loggedBoxAfter(before, after) == after

\* the box handed to logInteraction: the one captured before the action
loggedBox(before, after) == before

\* a decorator that logs in a `finally`
reachesLogInteractionAlways(result) == RUN_HEATMAP_REPORT

\* the statement after `await originalMethod.apply(...)` is reached only when that
\* did not throw, and logs only with the heatmap switched on
reachesLogInteraction(result) == result = "ok" /\ RUN_HEATMAP_REPORT

\* what the caller of the decorated method sees when the original method throws
propagated(error) == error

\* logInteraction
\* a logInteraction without the check of the bounding box
logInteractionAlways(logs, locator, boundingBox, type, pageObjectName, now) ==
    Append(logs, [locator |-> locator, type |-> type,
                  pageObjectName |-> pageObjectName, timestamp |-> now,
                  boundingBox |-> boundingBox])

logInteraction(logs, locator, boundingBox, type, pageObjectName, now) ==
    IF boundingBox = Null THEN logs
    ELSE Append(logs, [locator |-> locator, type |-> type,
                       pageObjectName |-> pageObjectName, timestamp |-> now,
                       boundingBox |-> boundingBox])

\* replacementMethod up to its first await: the isLocator check
BeginInteraction(w, type, obj, isLocator) ==
    /\ wstate[w] = "running"
    /\ Len(calls) < MaxCalls
    /\ calls' = Append(calls,
           [worker |-> w, type |-> type, obj |-> obj, box |-> Null,
            pc |-> IF isLocator THEN "resolving" ELSE "threw",
            thrown |-> "none",
            error |-> IF isLocator THEN "none" ELSE "NotALocator",
            trace |-> <<>>, entry |-> 0])
    /\ UNCHANGED <<captures, clock>>
    /\ UNCHANGED pipeVars
    /\ UNCHANGED <<fsVars, renderVars, retryVars, pageVars, pivotVars, sessionVars>>

\* what this[locatorPropName] is: no name was given, the name gives something
\* that is not a locator (or nothing), or it gives a locator
Overrides == {"none", "notLocator", "locator"}

\* a resolution that takes the named property before the first argument
targetLocatorByName(firstIsLocator, override) ==
    IF override = "locator" THEN "this[locatorPropName]"
    ELSE IF firstIsLocator THEN "args[0]"
    ELSE "none"

\* if (isLocator(args[0])) ... else if (isLocatorOverrideValid) ... else throw
targetLocator(firstIsLocator, override) ==
    IF firstIsLocator THEN "args[0]"
    ELSE IF override = "locator" THEN "this[locatorPropName]"
    ELSE "none"

\* replacementMethod of Interaction(type, locatorPropName) up to its first await
BeginInteractionByName(w, type, obj, firstIsLocator, override) ==
    /\ wstate[w] = "running"
    /\ Len(calls) < MaxCalls
    /\ LET target == targetLocator(firstIsLocator, override)
       IN  calls' = Append(calls,
               [worker |-> w, type |-> type, obj |-> obj, box |-> Null,
                pc |-> IF target # "none" THEN "resolving" ELSE "threw",
                thrown |-> "none",
                error |-> IF target # "none" THEN "none" ELSE "NotALocator",
                trace |-> <<>>, entry |-> 0,
                first |-> firstIsLocator, override |-> override, target |-> target])
    /\ UNCHANGED <<captures, clock>>
    /\ UNCHANGED pipeVars
    /\ UNCHANGED <<fsVars, renderVars, retryVars, pageVars, pivotVars, sessionVars>>

\* isVisible() and boundingBox() have resolved: box is Null for an invisible
\* target. Then, synchronously, the screenshot check of the decorator and of
\* takeHeatmapScreenshot, up to `await target.screenshot` or to the call of the
\* original method.
ResolveBox(c, box) ==
    /\ c \in DOMAIN calls
    /\ calls[c].pc = "resolving"
    /\ LET w == calls[c].worker
           name == calls[c].obj.pageObjectName
           shoot == /\ RUN_HEATMAP_REPORT
                    /\ name \notin DOMAIN getTrackedScreenshots(w)
                    /\ name \notin DOMAIN screenshotTracker[w]
       IN  calls' = [calls EXCEPT ![c].box = box,
                                  ![c].trace = Append(@, "box"),
                                  ![c].pc = IF shoot THEN "capturing" ELSE "acting"]
    /\ UNCHANGED <<captures, clock>>
    /\ UNCHANGED pipeVars
    /\ UNCHANGED <<fsVars, renderVars, retryVars, pageVars, pivotVars, sessionVars>>

\* a screenshot whose record is not kept
trackNothing(tracker, pageObjectName, record) == tracker

\* screenshotTracker[pageObjectName] = { screenshotPath, boundingBox }
track(tracker, pageObjectName, record) ==
    [n \in DOMAIN tracker \cup {pageObjectName} |->
        IF n = pageObjectName THEN record ELSE tracker[n]]

\* target.screenshot() has resolved, and for a component element.boundingBox():
\* the record is stored and the original method is called
ScreenshotDone(c, rootBox) ==
    /\ c \in DOMAIN calls
    /\ calls[c].pc = "capturing"
    /\ LET w == calls[c].worker
           name == calls[c].obj.pageObjectName
       IN  /\ captures' = [captures EXCEPT ![w][name] = @ + 1]
           /\ screenshotTracker' =
                  [screenshotTracker EXCEPT
                      ![w] = track(@, name, trackedRecord(calls[c].obj, rootBox))]
    /\ calls' = [calls EXCEPT ![c].trace = Append(@, "shot"), ![c].pc = "acting"]
    /\ UNCHANGED clock
    /\ UNCHANGED <<fsVars, renderVars, retryVars, pageVars, pivotVars, sessionVars>>
    /\ UNCHANGED <<RUN_NETWORK_REPORT, RUN_HEATMAP_REPORT, heard, flushError, wstate, monitored, title, pendingFold,
                   testStats, requestTracker, interactionLogs, netDir, heatDir,
                   last, reads, observed, nResponses, nTests, nMerges>>

\* the original method has settled: it threw `result`, or it returned ("ok") and
\* the interaction is logged; `after` is the target's box at that time
ActionDone(c, result, after) ==
    /\ c \in DOMAIN calls
    /\ calls[c].pc = "acting"
    /\ LET w == calls[c].worker
           now == clock
           logs == logInteraction(interactionLogs[w], c, loggedBox(calls[c].box, after),
                                  calls[c].type, calls[c].obj.pageObjectName, now)
           logged == reachesLogInteraction(result)
           pushed == logged /\ logs # interactionLogs[w]
       IN  /\ interactionLogs' = IF logged THEN [interactionLogs EXCEPT ![w] = logs]
                                 ELSE interactionLogs
           /\ clock' = IF pushed THEN now + 1 ELSE clock
           /\ calls' = [calls EXCEPT
                  ![c].pc = IF result = "ok" THEN "returned" ELSE "threw",
                  ![c].thrown = IF result = "ok" THEN "none" ELSE result,
                  ![c].error = IF result = "ok" THEN "none" ELSE propagated(result),
                  ![c].trace = IF pushed THEN @ \o <<"act", "log">>
                               ELSE Append(@, "act"),
                  ![c].entry = IF pushed THEN Len(logs) ELSE 0]
    /\ UNCHANGED captures
    /\ UNCHANGED <<fsVars, renderVars, retryVars, pageVars, pivotVars, sessionVars>>
    /\ UNCHANGED <<RUN_NETWORK_REPORT, RUN_HEATMAP_REPORT, heard, flushError, wstate, monitored, title, pendingFold,
                   testStats, requestTracker, screenshotTracker, netDir, heatDir,
                   last, reads, observed, nResponses, nTests, nMerges>>

(* ----------------------------- end of run ------------------------------- *)
\* every worker process of the run has exited: the reporters' onEnd and the global
\* teardown run after that, also when the run spawned fewer workers than allowed
AllFlushed == \A w \in Workers : wstate[w] \in {"none", "flushed"}

countReads(run) == [f \in AllWorkerFiles |-> IF f \in readBy(run) THEN reads[f] + 1 ELSE reads[f]]

\* NetworkTrafficReporter, enabled (by RUN_NETWORK_REPORT): the constructor creates
\* the output directory and onEnd aggregates and renders. The constructor's only effect is the
\* directory, which the workers' flushes create as well, so it is taken here
\* together with onEnd. A disabled reporter does nothing at all.
NetworkOnEnd ==
    /\ RUN_NETWORK_REPORT
    /\ AllFlushed
    /\ nMerges < MaxMerges
    /\ nMerges' = nMerges + 1
    /\ \E files \in Orders(netWorkerFiles(netDir)) :
          LET run == aggregateAllTraffic(createPathSafe(netDir), files)
              report == IF run.error = "none" THEN generate(run.after)
                        ELSE [dir |-> run.after, error |-> run.error]
          IN  /\ netDir' = report.dir
              /\ last' = [last EXCEPT !.network = run, !.handler = "NetworkOnEnd",
                                      !.error = report.error]
              /\ reads' = countReads(run)
    /\ UNCHANGED callVars
    /\ UNCHANGED <<fsVars, renderVars, retryVars, pageVars, pivotVars, sessionVars>>
    /\ UNCHANGED <<RUN_NETWORK_REPORT, RUN_HEATMAP_REPORT, heard, flushError, wstate, monitored, title, pendingFold,
                   testStats, requestTracker, interactionLogs, screenshotTracker,
                   heatDir, observed, nResponses, nTests>>

Skipped(dir) == [NoRun EXCEPT !.op = "skipped", !.before = dir, !.after = dir]

\* aggregateInteractions(); aggregateScreenshots(); then the report, each step
\* only if the one before did not throw
heatmapPipeline(dir, logFiles, shotFiles, flat) ==
    LET runLogs == aggregateInteractions(dir, logFiles)
        runShots == IF runLogs.error = "none"
                    THEN aggregateScreenshots(runLogs.after, shotFiles)
                    ELSE Skipped(runLogs.after)
        rendered == IF runLogs.error = "none" /\ runShots.error = "none"
                    THEN IF flat THEN generateHeatmapsFlat(runShots.after)
                         ELSE generateHeatmaps(runShots.after)
                    ELSE [dir |-> runShots.after,
                          error |-> IF runLogs.error # "none" THEN runLogs.error
                                    ELSE runShots.error]
    IN  [logs |-> runLogs, shots |-> runShots, dir |-> rendered.dir,
         error |-> rendered.error]

\* HeatmapReporter, enabled (by RUN_HEATMAP_REPORT, as the workers' side of the
\* feature is): constructor and onEnd
HeatmapOnEnd ==
    /\ RUN_HEATMAP_REPORT
    /\ AllFlushed
    /\ nMerges < MaxMerges
    /\ nMerges' = nMerges + 1
    /\ \E logFiles \in Orders(logsWorkerFiles(heatDir)),
          shotFiles \in Orders(shotsWorkerFiles(heatDir)) :
          LET out == heatmapPipeline(createPathSafe(heatDir), logFiles, shotFiles, FALSE)
          IN  /\ heatDir' = out.dir
              /\ last' = [last EXCEPT !.interactions = out.logs,
                                      !.screenshots = out.shots,
                                      !.handler = "HeatmapOnEnd",
                                      !.error = out.error]
              /\ reads' = [f \in AllWorkerFiles |->
                              IF f \in readBy(out.logs) \cup readBy(out.shots)
                              THEN reads[f] + 1 ELSE reads[f]]
    /\ UNCHANGED callVars
    /\ UNCHANGED <<fsVars, renderVars, retryVars, pageVars, pivotVars, sessionVars>>
    /\ UNCHANGED <<RUN_NETWORK_REPORT, RUN_HEATMAP_REPORT, heard, flushError, wstate, monitored, title, pendingFold,
                   testStats, requestTracker, interactionLogs, screenshotTracker,
                   netDir, observed, nResponses, nTests>>

\* src/global/globalTeardown.ts
GlobalTeardown ==
    /\ AllFlushed
    /\ nMerges < MaxMerges
    /\ nMerges' = nMerges + 1
    /\ \E files \in Orders(netWorkerFiles(netDir)),
          logFiles \in Orders(logsWorkerFiles(heatDir)),
          shotFiles \in Orders(shotsWorkerFiles(heatDir)) :
          LET run == aggregateWorkerNetworkLogs(netDir, files)
              heat == RUN_HEATMAP_REPORT /\ run.error = "none"
              out == heatmapPipeline(heatDir, logFiles, shotFiles, TRUE)
          IN  /\ netDir' = run.after
              /\ heatDir' = IF heat THEN out.dir ELSE heatDir
              /\ last' = [network |-> run,
                          interactions |-> IF heat THEN out.logs ELSE last.interactions,
                          screenshots |-> IF heat THEN out.shots ELSE last.screenshots,
                          handler |-> "GlobalTeardown",
                          error |-> IF heat THEN out.error ELSE run.error]
              /\ reads' = [f \in AllWorkerFiles |->
                              IF \/ f \in readBy(run)
                                 \/ heat /\ f \in readBy(out.logs) \cup readBy(out.shots)
                              THEN reads[f] + 1 ELSE reads[f]]
    /\ UNCHANGED callVars
    /\ UNCHANGED <<fsVars, renderVars, retryVars, pageVars, pivotVars, sessionVars>>
    /\ UNCHANGED <<RUN_NETWORK_REPORT, RUN_HEATMAP_REPORT, heard, flushError, wstate, monitored, title, pendingFold,
                   testStats, requestTracker, interactionLogs, screenshotTracker,
                   observed, nResponses, nTests>>

NextNet ==
    \/ \E w \in Workers, ignore \in BOOLEAN : StartTest(w, ignore)
    \/ \E w \in Workers, u \in URLs, c \in Codes : Response(w, u, c)
    \/ \E w \in Workers : ConcludeTest(w)
    \/ \E w \in Workers : ResumeTrafficResults(w)
    \/ \E w \in Workers : ClosePage(w)
    \/ \E w \in Workers : WorkerTeardown(w, "none")
    \/ NetworkOnEnd
    \/ GlobalTeardown

\* the network pipeline, with the heatmap switched off
InitNet ==
    /\ RUN_NETWORK_REPORT \in BOOLEAN
    /\ RUN_HEATMAP_REPORT = FALSE
    /\ InitCommon

SpecNet == InitNet /\ [][NextNet]_vars

(* --------------------------- the report's text --------------------------- *)
\* A text is a sequence of tokens: a token is a run of plain characters, one of
\* the two-character patterns of String.prototype.replace, or a placeholder.

RECURSIVE flatten(_)
flatten(texts) ==
    IF texts = <<>> THEN <<>> ELSE Head(texts) \o flatten(Tail(texts))

indexOf(str, pattern) ==
    IF \E i \in DOMAIN str : str[i] = pattern
    THEN CHOOSE i \in DOMAIN str :
             str[i] = pattern /\ \A j \in 1..(i - 1) : str[j] # pattern
    ELSE 0

\* GetSubstitution for a string pattern: $$ is a dollar sign, $& the matched
\* text, $` and $' the text before and after the match; $1 stays, there being no
\* capture group
getSubstitution(replacement, matched, before, after) ==
    flatten([i \in DOMAIN replacement |->
                IF replacement[i] = "$$" THEN <<"$">>
                ELSE IF replacement[i] = "$&" THEN matched
                ELSE IF replacement[i] = "$`" THEN before
                ELSE IF replacement[i] = "$'" THEN after
                ELSE <<replacement[i]>>])

\* str.replace(pattern, replacement) with a string pattern: the first occurrence
replace(str, pattern, replacement) ==
    LET i == indexOf(str, pattern)
    IN  IF i = 0 THEN str
        ELSE LET before == SubSeq(str, 1, i - 1)
                 after == SubSeq(str, i + 1, Len(str))
             IN  before \o getSubstitution(replacement, <<pattern>>, before, after)
                        \o after

\* the text of a template and of the style and script files: the text read from
\* the file, with the placeholder the generator replaces in it
templateOf(tag, placeholder) == <<"<" \o tag \o ">", placeholder, "</" \o tag \o ">">>
MainTemplate ==
    <<"<html>", "{{style}}", "{{chartSection}}", "{{summarySection}}",
      "{{domainSection}}", "{{pivotSection}}", "{{chartJs}}", "{{sortJs}}", "</html>">>
StyleContent == <<"body{}">>
ChartJs == <<"new Chart()">>
SortJs == <<"tr.innerHTML=", "$", "{r.url}">>

\* the URLs of a report's rows, as texts
UrlTexts ==
    {<<"https://x/y">>,
     <<"https://x/y?a=", "$&", "b=1">>,
     <<"https://x/y?price=", "$$">>,
     <<"https://x/y?q=", "{{pivotSection}}">>}

ReportRows == [url : UrlTexts, failed : BOOLEAN]

\* JSON.stringify(chartData), buildSummaryRows, buildDomainAccordions and
\* buildFailuresPivot as texts: each holds the URL of every row it is about
chartDataText(rows) ==
    <<"{urls:">> \o flatten([i \in DOMAIN rows |-> rows[i].url]) \o <<"}">>
summaryRowsText(rows) ==
    flatten([i \in DOMAIN rows |-> <<"<tr><td>">> \o rows[i].url \o <<"</td></tr>">>])
domainAccordionsText(rows) ==
    IF rows = <<>> THEN <<>>
    ELSE <<"<details>">> \o summaryRowsText(rows) \o <<"</details>">>
pivotTableText(rows) ==
    LET failedRows == SelectSeq(rows, LAMBDA r : r.failed)
    IN  IF failedRows = <<>> THEN <<NO_FAILURES>>
        ELSE <<"<table>">>
                 \o flatten([i \in DOMAIN failedRows |->
                                <<"<th>">> \o failedRows[i].url \o <<"</th>">>])
                 \o <<"</table>">>

\* NetworkReportGenerator.generate, from the loading of the templates to the
\* text that is written to network-report.html
generateText(rows) ==
    LET chartTemplate == replace(templateOf("chart", "{{chartData}}"),
                                 "{{chartData}}", chartDataText(rows))
        summaryTemplate == replace(templateOf("summary", "{{summaryRows}}"),
                                   "{{summaryRows}}", summaryRowsText(rows))
        domainTemplate == replace(templateOf("domain", "{{domainAccordions}}"),
                                  "{{domainAccordions}}", domainAccordionsText(rows))
        pivotTemplate == replace(templateOf("failures-by-test", "{{pivotTable}}"),
                                 "{{pivotTable}}", pivotTableText(rows))
    IN  replace(replace(replace(replace(replace(replace(replace(MainTemplate,
            "{{style}}", StyleContent),
            "{{chartSection}}", chartTemplate),
            "{{summarySection}}", summaryTemplate),
            "{{domainSection}}", domainTemplate),
            "{{pivotSection}}", pivotTemplate),
            "{{chartJs}}", ChartJs),
            "{{sortJs}}", SortJs)

\* the generator renders the report of the rows it was handed
RenderReport ==
    /\ reportHtml = <<>>
    /\ reportHtml' = generateText(reportUrls)
    /\ UNCHANGED reportUrls
    /\ UNCHANGED <<pipeVars, callVars, fsVars, retryVars, pageVars, pivotVars, sessionVars>>

InitRender ==
    /\ RUN_NETWORK_REPORT = TRUE
    /\ RUN_HEATMAP_REPORT = FALSE
    /\ InitPipeline
    /\ reportUrls \in UNION {[1..n -> ReportRows] : n \in 0..MaxUrls}
    /\ reportHtml = <<>>
    /\ NoRetry
    /\ NoSessions
    /\ NoPivot
    /\ NoPage

NextRender == RenderReport

SpecRender == InitRender /\ [][NextRender]_vars

(* -------------------------- retry decorators ----------------------------- *)
\* A call of a method decorated with Retry (decorators/actionRetry.ts) or with
\* APIRetry (decorators/apiRetry.ts). The original method and the hooks are the
\* caller's code: each settles by returning or by throwing.
Decorators == {"Retry", "APIRetry"}
HooksOf(kind) == IF kind = "Retry" THEN {"onRetry"} ELSE {"onRetry", "onSuccess", "onFailure"}

NoError == [by |-> "none", attempt |-> 0]
Thrown(by, attempt) == [by |-> by, attempt |-> attempt]

Event(ev, c, ok, arg) == [ev |-> ev, attempt |-> c.attempt, ok |-> ok, arg |-> arg]

\* after the loop: `throw lastError`, for APIRetry after `await onFailure(...)`
allFailed(c) ==
    IF c.kind = "APIRetry" /\ "onFailure" \in c.hooks
    THEN [c EXCEPT !.pc = "onFailure"]
    ELSE [c EXCEPT !.pc = "threw", !.error = c.lastError]

\* attempt++ and the loop condition
nextAttempt(c) ==
    IF c.attempt + 1 <= c.attempts
    THEN [c EXCEPT !.pc = "invoke", !.attempt = @ + 1]
    ELSE allFailed([c EXCEPT !.attempt = @ + 1])

\* a catch block that waits after the last attempt as well
delayAfterLast(c) ==
    IF c.attempt <= c.attempts /\ c.delay > 0
    THEN [c EXCEPT !.pc = "delay"]
    ELSE nextAttempt(c)

\* the end of the catch block: the delay, between attempts only
afterCatch(c) ==
    IF c.attempt < c.attempts /\ c.delay > 0
    THEN [c EXCEPT !.pc = "delay"]
    ELSE nextAttempt(c)

\* the catch block: lastError = error, then the onRetry hook if there is one
caught(c, error) ==
    LET d == [c EXCEPT !.lastError = error]
    IN  IF "onRetry" \in c.hooks THEN [d EXCEPT !.pc = "onRetry"] ELSE afterCatch(d)

\* the entry of the replacement method, up to the first call of the original
entered(kind, attempts, delay, hooks) ==
    LET c == [pc |-> "invoke", kind |-> kind, attempts |-> attempts, delay |-> delay,
              hooks |-> hooks, attempt |-> 1, lastError |-> NoError,
              error |-> NoError, result |-> 0, trace |-> <<>>]
    IN  IF RETRY_ENABLED /\ attempts < 1 THEN allFailed(c) ELSE c

\* the original method has settled
invoked(c, ok) ==
    LET d == [c EXCEPT !.trace = Append(@, Event("invoke", c, ok, NoError))]
    IN  IF ok
        THEN IF RETRY_ENABLED /\ c.kind = "APIRetry" /\ "onSuccess" \in c.hooks
             THEN [d EXCEPT !.pc = "onSuccess", !.result = c.attempt]
             ELSE [d EXCEPT !.pc = "returned", !.result = c.attempt]
        ELSE IF RETRY_ENABLED
             THEN caught(d, Thrown("method", c.attempt))
             ELSE [d EXCEPT !.pc = "threw", !.error = Thrown("method", c.attempt)]

\* a hook has settled: onSuccess is called inside the try block, onRetry inside
\* the catch block, onFailure after the loop
hookDone(c, ok) ==
    LET arg == IF c.pc = "onSuccess" THEN NoError ELSE c.lastError
        d == [c EXCEPT !.trace = Append(@, Event(c.pc, c, ok, arg))]
    IN  IF c.pc = "onSuccess"
        THEN IF ok THEN [d EXCEPT !.pc = "returned"]
             ELSE caught(d, Thrown("onSuccess", c.attempt))
        ELSE IF c.pc = "onRetry"
        THEN IF ok THEN afterCatch(d)
             ELSE [d EXCEPT !.pc = "threw", !.error = Thrown("onRetry", c.attempt)]
        ELSE IF ok THEN [d EXCEPT !.pc = "threw", !.error = c.lastError]
             ELSE [d EXCEPT !.pc = "threw", !.error = Thrown("onFailure", c.attempt)]

\* the timer of the delay has fired
delayed(c) == nextAttempt([c EXCEPT !.trace = Append(@, Event("delay", c, TRUE, NoError))])

DecoratedCall(kind, attempts, delay, hooks) ==
    /\ rcall = NoCall
    /\ rcall' = entered(kind, attempts, delay, hooks)
    /\ UNCHANGED RETRY_ENABLED
    /\ UNCHANGED <<pipeVars, callVars, fsVars, renderVars, pageVars, pivotVars, sessionVars>>

OriginalSettles(ok) ==
    /\ rcall.pc = "invoke"
    /\ rcall' = invoked(rcall, ok)
    /\ UNCHANGED RETRY_ENABLED
    /\ UNCHANGED <<pipeVars, callVars, fsVars, renderVars, pageVars, pivotVars, sessionVars>>

HookSettles(ok) ==
    /\ rcall.pc \in {"onRetry", "onSuccess", "onFailure"}
    /\ rcall' = hookDone(rcall, ok)
    /\ UNCHANGED RETRY_ENABLED
    /\ UNCHANGED <<pipeVars, callVars, fsVars, renderVars, pageVars, pivotVars, sessionVars>>

DelayElapses ==
    /\ rcall.pc = "delay"
    /\ rcall' = delayed(rcall)
    /\ UNCHANGED RETRY_ENABLED
    /\ UNCHANGED <<pipeVars, callVars, fsVars, renderVars, pageVars, pivotVars, sessionVars>>

InitRetry ==
    /\ RUN_NETWORK_REPORT = TRUE
    /\ RUN_HEATMAP_REPORT = FALSE
    /\ InitPipeline
    /\ NoRender
    /\ NoSessions
    /\ NoPivot
    /\ NoPage
    /\ RETRY_ENABLED \in BOOLEAN
    /\ rcall = NoCall

NextRetry ==
    \/ \E kind \in Decorators, attempts \in (-1)..MaxAttempts, delay \in {0, 1} :
          \E hooks \in SUBSET HooksOf(kind) : DecoratedCall(kind, attempts, delay, hooks)
    \/ \E ok \in BOOLEAN : OriginalSettles(ok)
    \/ \E ok \in BOOLEAN : HookSettles(ok)
    \/ DelayElapses

SpecRetry == InitRetry /\ [][NextRetry]_vars

\* the status codes on both sides of the failure threshold
StatusCodes == {200, 399, 400}

\* the tests of a worker and the responses of their pages, up to the worker's
\* teardown
NextTests ==
    \/ \E w \in Workers, ignore \in BOOLEAN : StartTest(w, ignore)
    \/ \E w \in Workers, u \in URLs, c \in StatusCodes : Response(w, u, c)
    \/ \E w \in Workers : ConcludeTest(w)
    \/ \E w \in Workers : ResumeTrafficResults(w)
    \/ \E w \in Workers : ClosePage(w)

InitTests ==
    /\ RUN_NETWORK_REPORT = TRUE
    /\ RUN_HEATMAP_REPORT = FALSE
    /\ InitCommon

SpecTests == InitTests /\ [][NextTests]_vars

\* the instrumented calls of a worker's test, with either setting of the switch
InitCalls ==
    /\ RUN_NETWORK_REPORT = TRUE
    /\ RUN_HEATMAP_REPORT \in BOOLEAN
    /\ InitCommon

NextCalls ==
    \/ \E w \in Workers : StartTest(w, TRUE)
    \/ \E w \in Workers, t \in InteractionTypes, o \in Objects, l \in BOOLEAN :
          BeginInteraction(w, t, o, l)
    \/ \E c \in 1..MaxCalls, b \in Boxes \cup {Null} : ResolveBox(c, b)
    \/ \E c \in 1..MaxCalls, b \in Boxes \cup {Null} : ScreenshotDone(c, b)
    \/ \E c \in 1..MaxCalls, r \in {"ok"} \cup ActionErrors, b \in Boxes \cup {Null} :
          ActionDone(c, r, b)

SpecCalls == InitCalls /\ [][NextCalls]_vars

(* ------------------- the end of the run, on its own --------------------- *)
HomePage == CHOOSE o \in Objects : ~o.root
TopNav == CHOOSE o \in Objects : o.root
BoxA == CHOOSE b \in Boxes : b.x = 140
BoxB == CHOOSE b \in Boxes : b.x = 100

\* what a worker may hold in memory when its tests are over: nothing; three
\* successes and a failure on one URL, a click on a page, and the screenshot of a
\* component whose target was not visible; a success and a failure, and two
\* interactions with the component, captured at another place; two successes and
\* one interaction with the component
WorkerMemories ==
    {[requestTracker |-> EmptyMap, interactionLogs |-> <<>>,
      screenshotTracker |-> EmptyMap],
     [requestTracker |->
          recordResponse(recordResponse(recordResponse(recordResponse(recordResponse(
              EmptyMap, "https://x/y", 200, 1), "https://x/y", 200, 1),
              "https://x/y", 200, 1), "https://x/y", 404, 1), "https://x/z", 200, 1),
      interactionLogs |-> logInteraction(<<>>, 1, BoxA, "click", "HomePage", 0),
      screenshotTracker |->
          ("HomePage" :> trackedRecord(HomePage, Null))
              @@ ("TopNavigationMenuComponent" :> trackedRecord(TopNav, BoxA))],
     [requestTracker |->
          recordResponse(recordResponse(EmptyMap,
              "https://x/y", 200, 3), "https://x/y", 200, 3),
      interactionLogs |->
          logInteraction(<<>>, 1, BoxA, "click", "TopNavigationMenuComponent", 0),
      screenshotTracker |->
          "TopNavigationMenuComponent" :> trackedRecord(TopNav, BoxA)],
     [requestTracker |->
          recordResponse(recordResponse(EmptyMap,
              "https://x/y", 200, 2), "https://x/y", 404, 2),
      interactionLogs |->
          logInteraction(logInteraction(<<>>, 1, BoxB, "fill",
              "TopNavigationMenuComponent", 0), 2, BoxA, "click",
              "TopNavigationMenuComponent", 1),
      screenshotTracker |->
          ("TopNavigationMenuComponent" :> trackedRecord(TopNav, BoxB))
              @@ ("HomePage" :> trackedRecord(HomePage, Null))]}

InitMerge ==
    /\ RUN_NETWORK_REPORT \in BOOLEAN
    /\ RUN_HEATMAP_REPORT \in BOOLEAN
    /\ \E m \in [Workers -> WorkerMemories], spawned \in 0..NumWorkers :
          /\ wstate = [w \in Workers |-> IF w <= spawned THEN "idle" ELSE "none"]
          /\ requestTracker =
                 [w \in Workers |->
                     IF w <= spawned THEN m[w].requestTracker ELSE EmptyMap]
          /\ interactionLogs =
                 [w \in Workers |->
                     IF RUN_HEATMAP_REPORT /\ w <= spawned
                     THEN m[w].interactionLogs ELSE <<>>]
          /\ screenshotTracker =
                 [w \in Workers |->
                     IF RUN_HEATMAP_REPORT /\ w <= spawned
                     THEN m[w].screenshotTracker ELSE EmptyMap]
    /\ monitored = [w \in Workers |-> FALSE]
    /\ title = [w \in Workers |-> 0]
    /\ pendingFold = [w \in Workers |-> 0]
    /\ testStats = [w \in Workers |-> EmptyMap]
    /\ netDir = NoDir
    /\ heatDir = NoDir
    /\ last = NoRuns
    /\ reads = [f \in AllWorkerFiles |-> 0]
    /\ observed = [w \in Workers |-> [u \in URLs |-> 0]]
    /\ nResponses = 0
    /\ nTests = 0
    /\ nMerges = 0
    /\ flushError = [w \in Workers |-> "none"]
    /\ heard = [w \in Workers |-> NoCounts]
    /\ calls = <<>>
    /\ captures = [w \in Workers |-> [n \in ObjectNames |-> 0]]
    /\ clock = 0
    /\ InitDisk
    /\ NoRender
    /\ NoRetry
    /\ NoSessions
    /\ NoPivot
    /\ NoPage

\* what is left of a file whose write was cut short
Garbage == [kind |-> "garbage", data |-> <<>>]

damaged(dir) == {f \in DOMAIN dir.files : ~parses(dir.files[f])}

\* the files the flushed workers wrote that are no longer listed, before any merge
lost(net, heat) ==
    {f \in AllWorkerFiles :
        /\ wstate[f.index] = "flushed"
        /\ \/ f = WorkerNetFile(f.index) /\ f \notin DOMAIN net.files
           \/ /\ RUN_HEATMAP_REPORT
              /\ f \in {WorkerLogsFile(f.index), WorkerShotsFile(f.index)}
              /\ f \notin DOMAIN heat.files}

\* what becomes of a directory one file of which is damaged: its content no longer
\* parses, or the file is gone
damage(dir, f, gone) ==
    IF gone THEN deleteFilesSafe(dir, {f}) ELSE [dir EXCEPT !.files[f] = Garbage]

\* a worker file is damaged on disk between the workers' flush and the end-of-run
\* handlers
DamageFile(f, gone) ==
    /\ AllFlushed
    /\ nMerges = 0
    /\ Cardinality(damaged(netDir)) + Cardinality(damaged(heatDir))
           + Cardinality(lost(netDir, heatDir)) < MaxDamaged
    /\ \/ /\ f \in netWorkerFiles(netDir)
          /\ parses(netDir.files[f])
          /\ netDir' = damage(netDir, f, gone)
          /\ UNCHANGED heatDir
       \/ /\ f \in logsWorkerFiles(heatDir) \cup shotsWorkerFiles(heatDir)
          /\ parses(heatDir.files[f])
          /\ heatDir' = damage(heatDir, f, gone)
          /\ UNCHANGED netDir
    /\ UNCHANGED callVars
    /\ UNCHANGED <<fsVars, renderVars, retryVars, pageVars, pivotVars, sessionVars>>
    /\ UNCHANGED <<RUN_NETWORK_REPORT, RUN_HEATMAP_REPORT, heard, flushError, wstate, monitored, title, pendingFold,
                   testStats, requestTracker, interactionLogs, screenshotTracker,
                   last, reads, observed, nResponses, nTests, nMerges>>

NextMerge ==
    \/ \E w \in Workers : WorkerTeardown(w, "none")
    \/ NetworkOnEnd
    \/ HeatmapOnEnd
    \/ GlobalTeardown

\* the heatmap pipeline from the decorated calls to the merged files: the tests
\* of the workers, their teardowns, and the heatmap reporter's onEnd
NextHeat ==
    \/ \E w \in Workers : wstate[w] = "none" /\ StartTest(w, TRUE)
    \/ \E w \in Workers, o \in Objects : BeginInteraction(w, "click", o, TRUE)
    \/ \E c \in 1..MaxCalls, b \in {BoxA, Null} : ResolveBox(c, b)
    \/ \E c \in 1..MaxCalls : ScreenshotDone(c, BoxB)
    \/ \E c \in 1..MaxCalls : ActionDone(c, "ok", Null)
    \/ \E w \in Workers : ConcludeTest(w)
    \/ \E w \in Workers : ClosePage(w)
    \/ \E w \in Workers : WorkerTeardown(w, "none")
    \/ nMerges = 0 /\ HeatmapOnEnd

InitHeat ==
    /\ RUN_NETWORK_REPORT = FALSE
    /\ RUN_HEATMAP_REPORT = TRUE
    /\ InitCommon

SpecHeat == InitHeat /\ [][NextHeat]_vars

(* ----------------------- one heatmap page, on its own -------------------- *)
\* what one interaction of the page can be: its box and its type
EventKinds == [boundingBox : Boxes, type : InteractionTypes]

\* the group of one object in the merged list, as logInteraction made its entries
groupOf(kinds) ==
    [i \in DOMAIN kinds |->
        [locator |-> i, type |-> kinds[i].type, pageObjectName |-> "HomePage",
         timestamp |-> i, boundingBox |-> kinds[i].boundingBox]]

\* the body of the loop of generateHeatmaps for one group: summarize and project
RenderPage ==
    /\ ~page.rendered
    /\ page' = [rendered |-> TRUE,
                points |-> heatmapPoints(pageEvents,
                                         trackedRecord(HomePage, Null).boundingBox)]
    /\ UNCHANGED pageEvents
    /\ UNCHANGED <<pipeVars, callVars, fsVars, renderVars, retryVars, pivotVars, sessionVars>>

InitPage ==
    /\ RUN_NETWORK_REPORT = FALSE
    /\ RUN_HEATMAP_REPORT = TRUE
    /\ InitPipeline
    /\ NoRender
    /\ NoRetry
    /\ NoSessions
    /\ NoPivot
    /\ pageEvents \in {groupOf(k) : k \in UNION {[1..n -> EventKinds] : n \in 0..MaxEvents}}
    /\ page = NotRendered

NextPage == RenderPage

SpecPage == InitPage /\ [][NextPage]_vars

(* ------------------------ the failure pivot, on its own ------------------ *)
TestTitles == {INHERITED_TITLE, 1, 2}

\* the stats of a URL that succeeded `success` times and failed once for each
\* title of `names`, as recordResponse builds them
statsOf(success, names) ==
    [success |-> success, fail |-> Len(names),
     failures |-> [i \in DOMAIN names |-> [testName |-> names[i], responseCode |-> 404]]]

UrlStats ==
    {statsOf(s, names) :
        s \in 0..1, names \in UNION {[1..n -> TestTitles] : n \in 0..MaxFailures}}

MergedReports == UNION {[D -> UrlStats] : D \in SUBSET URLs}

BuildPivot ==
    /\ ~pivot.built
    /\ pivot' = [built |-> TRUE, section |-> buildFailuresPivot(pivotReport)]
    /\ UNCHANGED pivotReport
    /\ UNCHANGED <<pipeVars, callVars, fsVars, renderVars, retryVars, pageVars, sessionVars>>

InitPivot ==
    /\ RUN_NETWORK_REPORT = TRUE
    /\ RUN_HEATMAP_REPORT = FALSE
    /\ InitPipeline
    /\ NoRender
    /\ NoRetry
    /\ NoSessions
    /\ NoPage
    /\ pivotReport \in MergedReports
    /\ pivot = [built |-> FALSE]

NextPivot == BuildPivot

SpecPivot == InitPivot /\ [][NextPivot]_vars

\* calls of methods decorated with Interaction(type, locatorPropName)
NextLocator ==
    \/ \E w \in Workers : StartTest(w, TRUE)
    \/ \E w \in Workers, o \in Objects, l \in BOOLEAN, p \in Overrides :
          BeginInteractionByName(w, "click", o, l, p)
    \/ \E c \in 1..MaxCalls, b \in {BoxA, Null} : ResolveBox(c, b)
    \/ \E c \in 1..MaxCalls : ScreenshotDone(c, BoxB)
    \/ \E c \in 1..MaxCalls, r \in {"ok"} \cup ActionErrors : ActionDone(c, r, Null)

SpecLocator == InitCalls /\ [][NextLocator]_vars

(* --------------------------- the session manager ------------------------- *)
\* configs/auth/session.ts, in minutes
SESSION_CHECK_INTERVAL_MS == 3
SESSION_LIFETIME_MS == 10

\* initializeSession
initializeSession(username) ==
    [username |-> username, startTime |-> dateNow, lastChecked |-> dateNow, isValid |-> TRUE]

\* isStoredSessionValid: a stored state with a timestamp and cookies, younger
\* than the session lifetime
isStoredSessionValid(username) ==
    LET state == storage[username]
    IN  /\ state # Null
        /\ state.cookies
        /\ dateNow - state.timestamp < SESSION_LIFETIME_MS

\* what validateSession makes of the user's session: the session it leaves and
\* the value it returns
validated(username) ==
    LET session == sessions[username]
        checked == [session EXCEPT !.lastChecked = dateNow]
    IN  IF session = Null THEN [session |-> Null, result |-> FALSE]
        ELSE IF dateNow - session.lastChecked < SESSION_CHECK_INTERVAL_MS
        THEN [session |-> session, result |-> session.isValid]
        ELSE IF dateNow - session.startTime >= SESSION_LIFETIME_MS
        THEN [session |-> [checked EXCEPT !.isValid = FALSE], result |-> FALSE]
        ELSE IF ~isStoredSessionValid(username)
        THEN [session |-> checked, result |-> FALSE]
        ELSE [session |-> checked, result |-> TRUE]

SessionCall(op, username, result) ==
    [op |-> op, username |-> username, result |-> result,
     refusedBefore |-> refused[username]]

validateSession(username) ==
    /\ sessionManager # Null
    /\ sessions' = [sessions EXCEPT ![username] = validated(username).session]
    /\ lastCall' = SessionCall("validateSession", username, validated(username).result)
    /\ refused' = [refused EXCEPT ![username] = @ \/ ~validated(username).result]
    /\ UNCHANGED <<storage, dateNow, sessionManager>>
    /\ UNCHANGED <<pipeVars, callVars, fsVars, renderVars, retryVars, pageVars, pivotVars>>

\* saveSession: the context's storage state, with or without cookies, is stored
\* with the time, and the session is initialised
saveSession(username, cookies) ==
    /\ sessionManager # Null
    /\ storage' = [storage EXCEPT ![username] = [cookies |-> cookies, timestamp |-> dateNow]]
    /\ sessions' = [sessions EXCEPT ![username] = initializeSession(username)]
    /\ lastCall' = SessionCall("saveSession", username, TRUE)
    /\ refused' = [refused EXCEPT ![username] = FALSE]
    /\ UNCHANGED <<dateNow, sessionManager>>
    /\ UNCHANGED <<pipeVars, callVars, fsVars, renderVars, retryVars, pageVars, pivotVars>>

\* restoreSession: false when nothing is stored for the user; otherwise the
\* cookies are set and the session is initialised
restoreSession(username) ==
    /\ sessionManager # Null
    /\ IF storage[username] = Null
       THEN /\ lastCall' = SessionCall("restoreSession", username, FALSE)
            /\ UNCHANGED <<sessions, refused>>
       ELSE /\ sessions' = [sessions EXCEPT ![username] = initializeSession(username)]
            /\ lastCall' = SessionCall("restoreSession", username, TRUE)
            /\ refused' = [refused EXCEPT ![username] = FALSE]
    /\ UNCHANGED <<storage, dateNow, sessionManager>>
    /\ UNCHANGED <<pipeVars, callVars, fsVars, renderVars, retryVars, pageVars, pivotVars>>

\* clearSession(username)
clearSession(username) ==
    /\ sessionManager # Null
    /\ sessions' = [sessions EXCEPT ![username] = Null]
    /\ storage' = [storage EXCEPT ![username] = Null]
    /\ lastCall' = SessionCall("clearSession", username, TRUE)
    /\ UNCHANGED <<dateNow, refused, sessionManager>>
    /\ UNCHANGED <<pipeVars, callVars, fsVars, renderVars, retryVars, pageVars, pivotVars>>

\* time passes
Tick(minutes) ==
    /\ dateNow + minutes <= MaxTime
    /\ dateNow' = dateNow + minutes
    /\ UNCHANGED <<sessions, storage, lastCall, refused, sessionManager>>
    /\ UNCHANGED <<pipeVars, callVars, fsVars, renderVars, retryVars, pageVars, pivotVars>>

\* Playwright numbers its worker processes from 0
WorkerIndexes == 0..(NumWorkers - 1)

\* the provider's check of its argument, `if (!workerIndex) throw`: 0 is falsy
hasWorkerInfo(workerIndex) == workerIndex # 0

\* getSessionManager(workerIndex): the module's instance when there is one;
\* otherwise a new SessionManager for the worker index, or an error when the
\* argument is falsy
getSessionManager(workerIndex) ==
    /\ IF sessionManager # Null
       THEN /\ lastCall' = [op |-> "getSessionManager", workerIndex |-> workerIndex,
                            before |-> sessionManager, threw |-> FALSE,
                            returned |-> sessionManager]
            /\ UNCHANGED sessionManager
       ELSE IF ~hasWorkerInfo(workerIndex)
       THEN /\ lastCall' = [op |-> "getSessionManager", workerIndex |-> workerIndex,
                            before |-> sessionManager, threw |-> TRUE,
                            returned |-> Null]
            /\ UNCHANGED sessionManager
       ELSE /\ sessionManager' = [workerIndex |-> workerIndex]
            /\ lastCall' = [op |-> "getSessionManager", workerIndex |-> workerIndex,
                            before |-> sessionManager, threw |-> FALSE,
                            returned |-> [workerIndex |-> workerIndex]]
    /\ UNCHANGED <<sessions, storage, dateNow, refused>>
    /\ UNCHANGED <<pipeVars, callVars, fsVars, renderVars, retryVars, pageVars, pivotVars>>

InitSession ==
    /\ RUN_NETWORK_REPORT = FALSE
    /\ RUN_HEATMAP_REPORT = FALSE
    /\ InitPipeline
    /\ NoRender
    /\ NoRetry
    /\ NoPage
    /\ NoPivot
    /\ NoSessions

NextSession ==
    \/ \E workerIndex \in WorkerIndexes : getSessionManager(workerIndex)
    \/ \E u \in Users : validateSession(u)
    \/ \E u \in Users, cookies \in BOOLEAN : saveSession(u, cookies)
    \/ \E u \in Users : restoreSession(u)
    \/ \E u \in Users : clearSession(u)
    \/ \E minutes \in {1, SESSION_CHECK_INTERVAL_MS} : Tick(minutes)

SpecSession == InitSession /\ [][NextSession]_vars

\* the end of a run with the network reporter enabled
InitEnabled == InitMerge /\ RUN_NETWORK_REPORT

SpecMerge == InitEnabled /\ [][NextMerge]_vars

\* a reporter at the end of a run, worker files of which may have been left with
\* content that does not parse. The two reporters work on directories of their
\* own, and each one's onEnd runs once: a behaviour follows one of them.
NextDamage ==
    \/ \E w \in Workers : WorkerTeardown(w, "none")
    \/ \E f \in AllWorkerFiles : DamageFile(f, FALSE)
    \/ last.handler = "none" /\ NetworkOnEnd
    \/ last.handler = "none" /\ HeatmapOnEnd

SpecDamage == InitMerge /\ [][NextDamage]_vars

\* the end of a run, worker files of which may have gone
NextLoss ==
    \/ \E w \in Workers : WorkerTeardown(w, "none")
    \/ \E f \in AllWorkerFiles : DamageFile(f, TRUE)
    \/ NetworkOnEnd
    \/ HeatmapOnEnd
    \/ GlobalTeardown

SpecLoss == InitMerge /\ [][NextLoss]_vars

\* the workers' teardowns, any one write of which may throw, and the global
\* teardown after them
NextFlush ==
    \/ \E w \in Workers, failing \in Writes \cup {"none"} : WorkerTeardown(w, failing)
    \/ GlobalTeardown

SpecFlush == InitMerge /\ [][NextFlush]_vars

(* ------------------------ the helpers, on their own --------------------- *)
InitFS ==
    /\ RUN_NETWORK_REPORT = FALSE
    /\ RUN_HEATMAP_REPORT = FALSE
    /\ wstate = [w \in Workers |-> "none"]
    /\ monitored = [w \in Workers |-> FALSE]
    /\ title = [w \in Workers |-> 0]
    /\ pendingFold = [w \in Workers |-> 0]
    /\ testStats = [w \in Workers |-> EmptyMap]
    /\ requestTracker = [w \in Workers |-> EmptyMap]
    /\ interactionLogs = [w \in Workers |-> <<>>]
    /\ screenshotTracker = [w \in Workers |-> EmptyMap]
    /\ netDir = NoDir
    /\ heatDir = NoDir
    /\ last = NoRuns
    /\ reads = [f \in AllWorkerFiles |-> 0]
    /\ observed = [w \in Workers |-> [u \in URLs |-> 0]]
    /\ nResponses = 0
    /\ nTests = 0
    /\ nMerges = 0
    /\ flushError = [w \in Workers |-> "none"]
    /\ heard = [w \in Workers |-> NoCounts]
    /\ calls = <<>>
    /\ captures = [w \in Workers |-> [n \in ObjectNames |-> 0]]
    /\ clock = 0
    /\ disk \in Disks
    /\ fsLast = [NoOp EXCEPT !.before = disk]
    /\ nOps = 0
    /\ NoRender
    /\ NoRetry
    /\ NoSessions
    /\ NoPivot
    /\ NoPage

NextFS ==
    \/ \E p \in TargetPaths : CreatePath(p)
    \/ \E p \in TargetPaths : ReadDir(p)
    \/ \E p \in TargetPaths : ReadFile(p)
    \/ \E p \in TargetPaths : DeleteFile(p)
    \/ \E p \in TargetPaths, c \in Contents : WriteTextFile(p, c)
    \/ \E n \in PageObjectNames : TakeScreenshot(n)

SpecFS == InitFS /\ [][NextFS]_vars

(* ------------------------------ folder clean-up -------------------------- *)
\* fs.rmSync(abs, { recursive: true, force: true }): the name and everything
\* below it are removed; a link is removed, not followed
rmSync(fs, abs) ==
    LET node == Append(realpathSync(fs, Front(abs)), abs[Len(abs)])
    IN  [p \in {q \in DOMAIN fs : ~IsPrefix(node, q)} |-> fs[p]]

\* the body of the loop of cleanUpFolders for one target: the entry is skipped
\* when assertSafePath throws; an error of rmSync is caught and logged
cleanUpOne(fs, target, fails) ==
    LET abs == resolve(target)
        done(outcome, after) ==
            [target |-> target, outcome |-> outcome, before |-> fs, after |-> after]
    IN  IF assertSafePath(fs, abs) # "none" THEN done("skipped", fs)
        ELSE IF ~existsSync(fs, abs) THEN done("absent", fs)
        ELSE IF fails THEN done("failed", fs)
        ELSE done("deleted", rmSync(fs, abs))

\* FSHelpers.cleanUpFolders(pathsToDelete): what became of each entry, in order;
\* rmSync throws for the entries whose index is in `failing`
RECURSIVE cleanUpFolders(_, _, _, _)
cleanUpFolders(fs, pathsToDelete, failing, log) ==
    IF Len(log) = Len(pathsToDelete) THEN log
    ELSE LET i == Len(log) + 1
             entry == cleanUpOne(fs, pathsToDelete[i], i \in failing)
         IN  cleanUpFolders(entry.after, pathsToDelete, failing, Append(log, entry))

\* the entries handed to the clean-up: a directory and a file of the workspace,
\* a link, a path through a directory link, paths outside and a missing path
CleanUpTargets ==
    {Rel(<<"reports">>), Rel(<<"reports", "a.json">>), Rel(<<"reports", "l.json">>),
     Rel(<<"link", "a.json">>), Rel(<<"..", "ws2", "a.json">>), Abs(<<"ws2">>),
     Rel(<<"tmp", "out">>)}

PathLists == UNION {[1..n -> CleanUpTargets] : n \in 0..MaxPaths}

\* the global teardown: one call of cleanUpFolders; no error leaves it
CleanUpFolders(pathsToDelete, failing) ==
    /\ fsLast.op = "none"
    /\ LET log == cleanUpFolders(disk, pathsToDelete, failing, <<>>)
       IN  /\ disk' = IF log = <<>> THEN disk ELSE log[Len(log)].after
           /\ fsLast' = [op |-> "cleanUpFolders", paths |-> pathsToDelete,
                         failing |-> failing, error |-> "none", result |-> log,
                         before |-> disk]
    /\ nOps' = nOps + 1
    /\ UNCHANGED <<pipeVars, callVars, renderVars, retryVars, pageVars, pivotVars, sessionVars>>

NextCleanUp ==
    \E pathsToDelete \in PathLists :
        \E failing \in SUBSET DOMAIN pathsToDelete : CleanUpFolders(pathsToDelete, failing)

SpecCleanUp == InitFS /\ [][NextCleanUp]_vars

(* ============================== properties ============================== *)
mergedTraffic(run) == JSONparse(run.after.files[JSON_OUTPUT_NAME])

\* the worker files of the network kind that were on disk before an aggregation
netFilesBefore(run) == netWorkerFiles(run.before)

countOf(dir, f, url, field) ==
    LET map == JSONparse(dir.files[f])
    IN  IF url \notin DOMAIN map THEN 0
        ELSE IF field = "success" THEN map[url].success ELSE map[url].fail

RECURSIVE sumOverFiles(_, _, _, _)
sumOverFiles(dir, files, url, field) ==
    IF files = {} THEN 0
    ELSE LET f == CHOOSE g \in files : TRUE
         IN  countOf(dir, f, url, field) + sumOverFiles(dir, files \ {f}, url, field)

\* C1: conservation of the network merge. After an aggregation of the network
\* kind, the merged map holds exactly the URLs of the worker files that were on
\* disk, and for each of them success is the sum of success over those files and
\* fail the sum of fail; a URL present in only some files keeps their totals.
C1_Conservation ==
    last.network.wrote =>
        LET out == mergedTraffic(last.network)
            files == netFilesBefore(last.network)
            before == last.network.before
        IN  /\ DOMAIN out = UNION {DOMAIN JSONparse(before.files[f]) : f \in files}
            /\ \A u \in DOMAIN out :
                  /\ out[u].success = sumOverFiles(before, files, u, "success")
                  /\ out[u].fail = sumOverFiles(before, files, u, "fail")
                  /\ out[u].success + out[u].fail =
                         sumOverFiles(before, files, u, "success")
                             + sumOverFiles(before, files, u, "fail")

\* two worker files that share one URL, and a URL that only one of them has
C1_Witness ==
    /\ last.network.wrote
    /\ Cardinality(netFilesBefore(last.network)) >= 2
    /\ LET out == mergedTraffic(last.network)
           before == last.network.before
       IN  /\ DOMAIN out = URLs
           /\ out["https://x/y"].success = 4
           /\ out["https://x/y"].fail = 2
           /\ \A f \in netFilesBefore(last.network) :
                 "https://x/y" \in DOMAIN JSONparse(before.files[f])
           /\ \E f \in netFilesBefore(last.network) :
                 "https://x/z" \notin DOMAIN JSONparse(before.files[f])
           /\ out["https://x/z"].success = 1

KindRuns ==
    {[run |-> last.network, target |-> JSON_OUTPUT_NAME],
     [run |-> last.interactions, target |-> INTERACTIONS_FILENAME],
     [run |-> last.screenshots, target |-> SCREENSHOTS_FILENAME]}

ran(run) == run.op \notin {"none", "skipped"}

\* C2: idempotent merge. For every kind, an aggregation that runs when the merged
\* file of an earlier run is there and no worker file has been written since
\* writes nothing: the merged file is what the earlier run wrote.
C2_IdempotentMerge ==
    \A k \in KindRuns :
        (ran(k.run) /\ k.run.files = <<>> /\ k.target \in DOMAIN k.run.before.files)
            => /\ ~k.run.wrote
               /\ k.run.after.files[k.target] = k.run.before.files[k.target]

RECURSIVE observedBy(_, _)
observedBy(w, url) == IF w = 0 THEN 0 ELSE observed[w][url] + observedBy(w - 1, url)

counted(map, url) == IF url \in DOMAIN map THEN map[url].success + map[url].fail ELSE 0

\* C3: end-to-end exactly-once counting. Once every worker has flushed and the
\* merge has run once, the merged map counts, for every URL, as many responses as
\* the listeners of all workers were handed for it.
C3_ExactlyOnce ==
    (AllFlushed /\ nMerges = 1 /\ last.network.wrote)
        => \A u \in URLs :
              counted(mergedTraffic(last.network), u) = observedBy(NumWorkers, u)

InsideWs(path) == IsPrefix(WORKSPACE_ROOT, path)

\* the operations of FSHelpers
SafeHelpers ==
    {"createPathSafe", "readDirSafe", "readFileSafe", "deleteFileSafe",
     "writeTextFileSafe"}

\* where the kernel operates when it is handed the path of the last call
resolvedLocation == walk(fsLast.before, <<>>, resolve(fsLast.path)).path

\* C4: sandbox rejection. A call of a safe helper on a path whose resolved
\* location is outside the workspace raises an error, and nothing outside the
\* workspace is created, changed or removed by it.
C4_SandboxRejection ==
    (fsLast.op \in SafeHelpers /\ ~InsideWs(resolvedLocation))
        => /\ fsLast.error # "none"
           /\ \A p \in DOMAIN disk \cup DOMAIN fsLast.before :
                 ~InsideWs(p) =>
                     /\ p \in DOMAIN disk
                     /\ p \in DOMAIN fsLast.before
                     /\ disk[p] = fsLast.before[p]

\* some existing component of the path is a symbolic link
throughSymlink(fs, abs) ==
    \E k \in 1..Len(abs) : isSymbolicLink(fs, SubSeq(abs, 1, k))

\* C5: symlink rejection. A call of a safe helper on a path one of whose existing
\* components is a symbolic link fails, wherever the link points.
C5_SymlinkRejection ==
    (fsLast.op \in SafeHelpers /\ throughSymlink(fsLast.before, resolve(fsLast.path)))
        => fsLast.error # "none"

\* C6: success-only logging. When the action of an instrumented call throws, the
\* caller gets that same error and the worker's list holds no entry of the call.
C6_SuccessOnlyLogging ==
    \A c \in DOMAIN calls :
        calls[c].thrown # "none"
            => /\ calls[c].pc = "threw"
               /\ calls[c].error = calls[c].thrown
               /\ calls[c].entry = 0
               /\ \A i \in DOMAIN interactionLogs[calls[c].worker] :
                     interactionLogs[calls[c].worker][i].locator # c

\* an action threw on a visible target with the heatmap on, after another call of
\* the same worker had been logged
C6_Witness ==
    \E c \in DOMAIN calls :
        /\ calls[c].thrown = "TimeoutError"
        /\ calls[c].error = "TimeoutError"
        /\ calls[c].box # Null
        /\ RUN_HEATMAP_REPORT
        /\ Len(interactionLogs[calls[c].worker]) = 1

\* C7: screenshot singleton. Within a worker no more than one screenshot is ever
\* captured for an object name, also when two interactions overlap.
C7_ScreenshotSingleton ==
    \A w \in Workers, n \in ObjectNames : captures[w][n] <= 1

stepRank(step) ==
    IF step = "box" THEN 1 ELSE IF step = "shot" THEN 2 ELSE IF step = "act" THEN 3 ELSE 4

\* C8: instrumentation protocol order. The steps of an instrumented call come in
\* the order box, screenshot, action, log, the action never without the box and
\* the log never without the action, and the entry holds the box of the first step.
C8_ProtocolOrder ==
    \A c \in DOMAIN calls :
        LET t == calls[c].trace
        IN  /\ \A i, j \in DOMAIN t : i < j => stepRank(t[i]) < stepRank(t[j])
            /\ t # <<>> => t[1] = "box"
            /\ \A i \in DOMAIN t : t[i] = "log" => i > 1 /\ t[i - 1] = "act"
            /\ calls[c].entry # 0 =>
                  /\ t[Len(t)] = "log"
                  /\ interactionLogs[calls[c].worker][calls[c].entry].boundingBox
                         = calls[c].box

\* a call that went through all four steps
C8_Witness ==
    \E c \in DOMAIN calls :
        /\ calls[c].trace = <<"box", "shot", "act", "log">>
        /\ calls[c].entry # 0
        /\ interactionLogs[calls[c].worker][calls[c].entry].locator = c

succeeded(run) == ran(run) /\ run.error = "none"

\* C9: worker files are consumed exactly once. No worker file is read a second
\* time, and after an aggregation that succeeded none of its kind is left.
C9_ConsumedOnce ==
    /\ \A f \in AllWorkerFiles : reads[f] <= 1
    /\ succeeded(last.network) =>
          netWorkerFiles(last.network.after) = {}
    /\ succeeded(last.interactions) =>
          logsWorkerFiles(last.interactions.after) = {}
    /\ succeeded(last.screenshots) =>
          shotsWorkerFiles(last.screenshots.after) = {}
    /\ (succeeded(last.network) /\ last.handler # "none") =>
          netWorkerFiles(netDir) = {}

\* the files of two workers, of all three kinds, have been merged
C9_Witness ==
    /\ \A k \in KindRuns : k.run.wrote /\ Len(k.run.files) >= 2
    /\ \A f \in AllWorkerFiles : f.index <= 2 => reads[f] = 1
    /\ logsWorkerFiles(heatDir) = {}
    /\ shotsWorkerFiles(heatDir) = {}

\* C10: empty input is not an error. An aggregation that finds no worker file of
\* its kind raises nothing and writes no merged file, and the handler it runs in
\* does not fail.
C10_EmptyInput ==
    \A k \in KindRuns :
        (ran(k.run) /\ k.run.files = <<>>)
            => /\ k.run.error = "none"
               /\ ~k.run.wrote
               /\ last.error = "none"

\* the aggregations the last end-of-run handler went through
runsOfLast ==
    IF last.handler = "NetworkOnEnd"
    THEN {[run |-> last.network, target |-> JSON_OUTPUT_NAME]}
    ELSE IF last.handler = "HeatmapOnEnd"
    THEN {k \in KindRuns : k.target # JSON_OUTPUT_NAME}
    ELSE IF last.handler = "GlobalTeardown"
    THEN {k \in KindRuns : k.target = JSON_OUTPUT_NAME
                             \/ (RUN_HEATMAP_REPORT /\ last.network.error = "none")}
    ELSE {}

\* the aggregation came upon a file that does not parse
hitCorrupt(run) ==
    /\ ran(run)
    /\ run.before.exists
    /\ \E i \in DOMAIN run.files :
          /\ ~parses(run.before.files[run.files[i]])
          /\ \A j \in 1..(i - 1) : parses(run.before.files[run.files[j]])

\* C11: corrupt input is fatal. An aggregation that comes upon a worker file that
\* does not parse aborts with the parse error, which the handler it runs in
\* throws on; the corrupt file stays on disk and the merged file of the kind is
\* neither written nor overwritten.
C11_CorruptIsFatal ==
    /\ \A k \in KindRuns :
          hitCorrupt(k.run) =>
              /\ k.run.error = "SyntaxError"
              /\ ~k.run.wrote
              /\ damaged(k.run.before) \subseteq DOMAIN k.run.after.files
              /\ k.target \in DOMAIN k.run.after.files
                     <=> k.target \in DOMAIN k.run.before.files
              /\ k.target \in DOMAIN k.run.before.files =>
                     k.run.after.files[k.target] = k.run.before.files[k.target]
    /\ \A k \in runsOfLast : hitCorrupt(k.run) => last.error = "SyntaxError"

\* an aggregation that had consumed a good file before it came upon the corrupt one
C11_Witness ==
    \E k \in runsOfLast :
        /\ hitCorrupt(k.run)
        /\ Len(k.run.files) >= 2
        /\ firstCorrupt(k.run.before, k.run.files) = 2
        /\ k.run.error = "SyntaxError"
        /\ last.error = "SyntaxError"

\* the last handler aggregated both heatmap kinds and went on to render
rendered ==
    /\ \/ last.handler = "HeatmapOnEnd"
       \/ last.handler = "GlobalTeardown" /\ RUN_HEATMAP_REPORT
                                          /\ last.network.error = "none"
    /\ last.interactions.error = "none"
    /\ last.screenshots.error = "none"
    /\ heatDir.exists
    /\ {INTERACTIONS_FILENAME, SCREENSHOTS_FILENAME} \subseteq DOMAIN heatDir.files
    /\ parses(heatDir.files[INTERACTIONS_FILENAME])
    /\ parses(heatDir.files[SCREENSHOTS_FILENAME])

mergedGroups == Range(groupNames(JSONparse(heatDir.files[INTERACTIONS_FILENAME])))
mergedShots == JSONparse(heatDir.files[SCREENSHOTS_FILENAME])

\* C12: a missing screenshot is a skip, not a failure. When the merged interaction
\* list has a group whose logical object has no record in the merged screenshot
\* map, heatmap generation raises no error, and the page of every other group and
\* (for the reporter) the index are written.
C12_MissingScreenshotSkipped ==
    (rendered /\ \E n \in mergedGroups : n \notin DOMAIN mergedShots) =>
        /\ last.error = "none"
        /\ \A n \in mergedGroups :
              n \in DOMAIN mergedShots => HeatmapPage(n) \in DOMAIN heatDir.files
        /\ last.handler = "HeatmapOnEnd" => HEATMAP_INDEX_NAME \in DOMAIN heatDir.files

\* C13: a disabled feature writes nothing. With the network pipeline switched off
\* no worker file and no merged file of network traffic is ever written, and with
\* the heatmap switched off no worker file and no merged file of interactions or
\* screenshots.
C13_DisabledWritesNothing ==
    /\ ~RUN_NETWORK_REPORT =>
          /\ netWorkerFiles(netDir) = {}
          /\ JSON_OUTPUT_NAME \notin DOMAIN netDir.files
    /\ ~RUN_HEATMAP_REPORT =>
          /\ logsWorkerFiles(heatDir) \cup shotsWorkerFiles(heatDir) = {}
          /\ INTERACTIONS_FILENAME \notin DOMAIN heatDir.files
          /\ SCREENSHOTS_FILENAME \notin DOMAIN heatDir.files

\* C14: with the heatmap toggle off an instrumented call does nothing but the
\* action: no visibility or bounding-box query, no screenshot, no log entry, and
\* no error other than the one the action itself throws. (Calls whose first
\* argument is not a Locator are left aside: they are rejected before anything.)
C14_ToggleOffOnlyAction ==
    ~RUN_HEATMAP_REPORT =>
        \A c \in {d \in DOMAIN calls : calls[d].error # "NotALocator"} :
            /\ Range(calls[c].trace) \subseteq {"act"}
            /\ calls[c].box = Null
            /\ calls[c].entry = 0
            /\ captures[calls[c].worker][calls[c].obj.pageObjectName] = 0
            /\ interactionLogs[calls[c].worker] = <<>>
            /\ calls[c].error = calls[c].thrown

\* the files of its teardown that worker w left on disk
flushedWrites(w) ==
    {k \in Writes :
        \/ k = "network" /\ WorkerNetFile(w) \in DOMAIN netDir.files
        \/ k = "screenshots" /\ WorkerShotsFile(w) \in DOMAIN heatDir.files
        \/ k = "interactions" /\ WorkerLogsFile(w) \in DOMAIN heatDir.files}

\* C15: the three writes of a worker's teardown are independent. When one of them
\* fails, the other two are still made: their files are there until the end of
\* the run consumes them.
C15_IndependentWrites ==
    \A w \in Workers :
        (/\ wstate[w] = "flushed"
         /\ RUN_HEATMAP_REPORT
         /\ flushError[w] # "none"
         /\ nMerges = 0) =>
            flushedWrites(w) = Writes \ {flushError[w]}

\* the file and directory operations the telemetry pipeline makes: flush, merge
\* and rendering through the helpers, the capture through takeScreenshot
PipelineOps == SafeHelpers \cup {"takeScreenshot"}

createdOutside ==
    {p \in DOMAIN disk :
        ~InsideWs(p) /\ (p \notin DOMAIN fsLast.before \/ disk[p] # fsLast.before[p])}

\* C16: every file and directory operation of the telemetry pipeline is checked
\* against the sandbox. An operation on a name or path that resolves outside the
\* workspace root fails, and creates or writes nothing outside the root.
C16_AllThroughSandbox ==
    (fsLast.op \in PipelineOps /\ ~InsideWs(resolvedLocation))
        => (fsLast.error # "none" /\ createdOutside = {})

\* what an aggregation read, had it listed its files in the order o
enumerated(run, o) == [i \in DOMAIN o |-> JSONparse(run.before.files[o[i]])]

\* what it would have merged in that order, and what it wrote
mergedIn(k, o) == mergeOf(k.run.op, enumerated(k.run, o))
mergedOf(k) == JSONparse(k.run.after.files[k.target])

occurrences(list, x) == Cardinality({i \in DOMAIN list : list[i] = x})

\* the same entries, each as many times, in whatever order
sameEntries(a, b) ==
    /\ Len(a) = Len(b)
    /\ \A x \in Range(a) \cup Range(b) : occurrences(a, x) = occurrences(b, x)

\* C17 as stated: order independence of the merge. For each kind, whatever the
\* order in which the worker files are enumerated, the aggregate is the same
\* RequestMap, the same interaction list, the same screenshot map.
C17_OrderIndependent ==
    \A k \in KindRuns :
        k.run.wrote =>
            \A o \in Orders(Range(k.run.files)) : mergedIn(k, o) = mergedOf(k)

\* the aggregates of two enumeration orders agree in all that does not depend on
\* the order: the URLs, their counts and the entries of their failures lists; the
\* entries of the interaction list; the keys of the screenshot map and the record
\* of every key for which the files hold one and the same record
sameUpToOrder(k, a, b) ==
    IF k.target = JSON_OUTPUT_NAME
    THEN /\ DOMAIN a = DOMAIN b
         /\ \A u \in DOMAIN a :
               /\ a[u].success = b[u].success
               /\ a[u].fail = b[u].fail
               /\ sameEntries(a[u].failures, b[u].failures)
    ELSE IF k.target = INTERACTIONS_FILENAME
    THEN sameEntries(a, b)
    ELSE /\ DOMAIN a = DOMAIN b
         /\ \A n \in DOMAIN a :
               \/ a[n] = b[n]
               \/ \E i, j \in DOMAIN k.run.inputs :
                     /\ n \in DOMAIN k.run.inputs[i]
                     /\ n \in DOMAIN k.run.inputs[j]
                     /\ k.run.inputs[i][n] # k.run.inputs[j][n]

\* C17, amended: the merge is independent of the enumeration order up to the
\* order of the lists and the choice among differing screenshot records.
C17_OrderIndependentUpToOrder ==
    \A k \in KindRuns :
        k.run.wrote =>
            \A o \in Orders(Range(k.run.files)) :
                sameUpToOrder(k, mergedOf(k), mergedIn(k, o))

\* all three kinds were merged from two files that another order would have
\* merged into something else
C17_Witness ==
    \A k \in KindRuns :
        /\ k.run.wrote
        /\ Len(k.run.files) = 2
        /\ \E o \in Orders(Range(k.run.files)) : mergedIn(k, o) # mergedOf(k)

\* the place, in enumeration order, of the first file that holds the key
firstHolder(inputs, key) ==
    CHOOSE i \in DOMAIN inputs :
        /\ key \in DOMAIN inputs[i]
        /\ \A j \in 1..(i - 1) : key \notin DOMAIN inputs[j]

\* C18: the screenshot merge is first-seen-wins. The keys of the merged map are
\* those of all the worker files together, and each key holds the record of the
\* first file, in enumeration order, that has it.
C18_FirstSeenWins ==
    last.screenshots.wrote =>
        LET inputs == last.screenshots.inputs
            merged == JSONparse(last.screenshots.after.files[SCREENSHOTS_FILENAME])
        IN  /\ inputs = enumerated(last.screenshots, last.screenshots.files)
            /\ DOMAIN merged = UNION {DOMAIN inputs[i] : i \in DOMAIN inputs}
            /\ \A key \in DOMAIN merged :
                  merged[key] = inputs[firstHolder(inputs, key)][key]

\* two files hold different records for a key, and the merged map has the first
\* file's; another key comes from the second file alone
C18_Witness ==
    /\ last.screenshots.wrote
    /\ Len(last.screenshots.inputs) = 2
    /\ LET inputs == last.screenshots.inputs
           merged == JSONparse(last.screenshots.after.files[SCREENSHOTS_FILENAME])
       IN  /\ \E key \in DOMAIN inputs[1] \cap DOMAIN inputs[2] :
                 /\ inputs[1][key] # inputs[2][key]
                 /\ merged[key] = inputs[1][key]
           /\ \E key \in DOMAIN inputs[2] \ DOMAIN inputs[1] :
                 merged[key] = inputs[2][key]

\* the number of entries of the first n files
RECURSIVE entriesUpTo(_, _)
entriesUpTo(inputs, n) ==
    IF n = 0 THEN 0 ELSE entriesUpTo(inputs, n - 1) + Len(inputs[n])

\* C19: the interaction merge is concatenation. The merged list is as long as
\* the worker lists together, and the j-th entry of the i-th file, in enumeration
\* order, stands right after all entries of the files before it and the j - 1
\* entries before it in its file: every entry once, files in enumeration order,
\* entries in the order of their file.
C19_Concatenation ==
    last.interactions.wrote =>
        LET inputs == last.interactions.inputs
            merged == JSONparse(last.interactions.after.files[INTERACTIONS_FILENAME])
        IN  /\ inputs = enumerated(last.interactions, last.interactions.files)
            /\ Len(merged) = entriesUpTo(inputs, Len(inputs))
            /\ \A i \in DOMAIN inputs : \A j \in DOMAIN inputs[i] :
                  merged[entriesUpTo(inputs, i - 1) + j] = inputs[i][j]

\* a file of two entries was merged after a file of one
C19_Witness ==
    /\ last.interactions.wrote
    /\ Len(last.interactions.inputs) = 2
    /\ Len(last.interactions.inputs[1]) = 1
    /\ Len(last.interactions.inputs[2]) = 2
    /\ LET merged == JSONparse(last.interactions.after.files[INTERACTIONS_FILENAME])
       IN  /\ Len(merged) = 3
           /\ merged[1] = last.interactions.inputs[1][1]
           /\ merged[3] = last.interactions.inputs[2][2]
           /\ merged[1] # merged[2]

failuresOf(map, url) == IF url \in DOMAIN map THEN map[url].failures ELSE <<>>

\* the number of failures of the URL in the first n files
RECURSIVE failuresUpTo(_, _, _)
failuresUpTo(inputs, url, n) ==
    IF n = 0 THEN 0
    ELSE failuresUpTo(inputs, url, n - 1) + Len(failuresOf(inputs[n], url))

StatsA == [success |-> 3, fail |-> 1,
           failures |-> <<[testName |-> 1, responseCode |-> 404]>>]
StatsB == [success |-> 2, fail |-> 0, failures |-> <<>>]

\* C20: network merge of the failures lists. For every URL the merged failures
\* list is the failures lists of the worker files one after the other in
\* enumeration order, nothing dropped and nothing twice; {3, 1, [t1 404]} and
\* {2, 0, []} merge to {5, 1, [t1 404]}; and the maps parsed from the files are,
\* after the merge, what they were.
C20_FailuresConcatenated ==
    last.network.wrote =>
        LET inputs == enumerated(last.network, last.network.files)
            merged == mergedTraffic(last.network)
        IN  /\ \A u \in DOMAIN merged :
                  /\ Len(merged[u].failures) = failuresUpTo(inputs, u, Len(inputs))
                  /\ \A i \in DOMAIN inputs : \A j \in DOMAIN failuresOf(inputs[i], u) :
                        merged[u].failures[failuresUpTo(inputs, u, i - 1) + j]
                            = inputs[i][u].failures[j]
            /\ \A u \in URLs :
                  (/\ Len(inputs) = 2
                   /\ u \in DOMAIN inputs[1] \cap DOMAIN inputs[2]
                   /\ inputs[1][u] = StatsA
                   /\ inputs[2][u] = StatsB)
                      => merged[u] = [success |-> 5, fail |-> 1,
                                      failures |-> StatsA.failures]
            /\ last.network.inputs = inputs

\* worker A's file with {3, 1, [t1 404]} and worker B's with {2, 0, []} for one
\* URL were merged, in that order
C20_Witness ==
    /\ last.network.wrote
    /\ Len(last.network.files) = 2
    /\ LET inputs == enumerated(last.network, last.network.files)
           merged == mergedTraffic(last.network)
       IN  /\ "https://x/y" \in DOMAIN inputs[1] \cap DOMAIN inputs[2]
           /\ inputs[1]["https://x/y"] = StatsA
           /\ inputs[2]["https://x/y"] = StatsB
           /\ merged["https://x/y"].success = 5
           /\ merged["https://x/y"].failures = StatsA.failures

entryOf(map, url) == IF url \in DOMAIN map THEN map[url] ELSE NewStats

\* what the claim says of a response for `u` with status `c` in worker `w`
classified(w, u, c) ==
    LET old == testStats[w]
        new == testStats'[w]
        was == entryOf(old, u)
    IN  /\ DOMAIN new = DOMAIN old \cup {u}
        /\ \A v \in DOMAIN old \ {u} : new[v] = old[v]
        /\ \A x \in Workers \ {w} : testStats'[x] = testStats[x]
        /\ requestTracker' = requestTracker
        /\ IF c >= 400
           THEN /\ new[u].fail = was.fail + 1
                /\ new[u].success = was.success
                /\ new[u].failures =
                      Append(was.failures, [testName |-> title[w], responseCode |-> c])
           ELSE /\ new[u].success = was.success + 1
                /\ new[u].fail = was.fail
                /\ new[u].failures = was.failures

\* C21: response classification. Every response the listener is handed looks up
\* or creates the entry of its URL and changes one counter of that entry only: a
\* status of 400 or more adds one to fail and appends one {testName, responseCode}
\* to failures, any other status adds one to success and leaves failures alone.
\* The entries of the other URLs, and the worker-wide map, stay as they were.
C21_ResponseClassification ==
    [][\A w \in Workers, u \in URLs, c \in StatusCodes :
          Response(w, u, c) => classified(w, u, c)]_vars

\* one URL of a test got a response on each side of the threshold, 399 and 400
C21_Witness ==
    \E w \in Workers, u \in URLs :
        /\ u \in DOMAIN testStats[w]
        /\ testStats[w][u].success = 1
        /\ testStats[w][u].fail = 1
        /\ testStats[w][u].failures[1].responseCode = 400
        /\ observed[w][u] = 2

IsPrefixOf(a, b) == Len(a) <= Len(b) /\ SubSeq(b, 1, Len(a)) = a

\* the step changes worker w's cumulative map or empties its per-test map
foldsBy(w) ==
    \/ requestTracker'[w] # requestTracker[w]
    \/ testStats[w] # EmptyMap /\ testStats'[w] = EmptyMap
    \/ ConcludeTest(w) /\ monitored[w] /\ ~hasFailures(testStats[w])
    \/ ResumeTrafficResults(w)

\* the per-test map was added into the cumulative map and is now empty
foldedInto(w) ==
    LET t == testStats[w]
        old == requestTracker[w]
        new == requestTracker'[w]
    IN  /\ testStats'[w] = EmptyMap
        /\ DOMAIN new = DOMAIN old \cup DOMAIN t
        /\ \A u \in DOMAIN new :
              /\ new[u].success = entryOf(old, u).success + entryOf(t, u).success
              /\ new[u].fail = entryOf(old, u).fail + entryOf(t, u).fail
              /\ new[u].failures = entryOf(old, u).failures \o entryOf(t, u).failures

\* no entry of the cumulative map is removed, no counter goes down, and the
\* failures list only grows at its end
neverDecreases(w) ==
    /\ DOMAIN requestTracker[w] \subseteq DOMAIN requestTracker'[w]
    /\ \A u \in DOMAIN requestTracker[w] :
          /\ requestTracker'[w][u].success >= requestTracker[w][u].success
          /\ requestTracker'[w][u].fail >= requestTracker[w][u].fail
          /\ IsPrefixOf(requestTracker[w][u].failures, requestTracker'[w][u].failures)

recorded(c) == calls[c].pc = "returned" /\ RUN_HEATMAP_REPORT

entriesOf(c) ==
    {i \in DOMAIN interactionLogs[calls[c].worker] :
        interactionLogs[calls[c].worker][i].locator = c}

\* C23: interactions without geometry are not logged. Recording an interaction
\* whose bounding box is null appends nothing; recording one with a box appends
\* exactly one entry, which carries the type, the object name and the box given.
\* Nothing else is in a worker's list.
C23_NoGeometryNoEntry ==
    /\ \A c \in DOMAIN calls :
          recorded(c) =>
              IF calls[c].box = Null
              THEN entriesOf(c) = {}
              ELSE /\ Cardinality(entriesOf(c)) = 1
                   /\ \A i \in entriesOf(c) :
                         LET e == interactionLogs[calls[c].worker][i]
                         IN  /\ e.type = calls[c].type
                             /\ e.pageObjectName = calls[c].obj.pageObjectName
                             /\ e.boundingBox = calls[c].box
    /\ \A w \in Workers :
          Len(interactionLogs[w]) =
              Cardinality({c \in DOMAIN calls :
                              /\ calls[c].worker = w
                              /\ recorded(c)
                              /\ calls[c].box # Null})

\* a worker recorded an interaction on an invisible target and one on a visible
\* target: its list holds the second only
C23_Witness ==
    \E c, d \in DOMAIN calls :
        /\ calls[c].worker = calls[d].worker
        /\ recorded(c) /\ calls[c].box = Null
        /\ recorded(d) /\ calls[d].box # Null
        /\ Len(interactionLogs[calls[c].worker]) = 1
        /\ interactionLogs[calls[c].worker][1].locator = d

\* round(t / 2): the integer nearest to t / 2, the upper one of two
roundOfHalves(t) ==
    CHOOSE r \in ((t \div 2) - 1)..((t \div 2) + 1) : 2 * r - 1 <= t /\ t < 2 * r + 1

\* the point the claim gives for a bounding box and an origin
projected(box, origin) ==
    [x |-> roundOfHalves(2 * (box.x - origin.x) + box.width),
     y |-> roundOfHalves(2 * (box.y - origin.y) + box.height)]

pagePoints(name) ==
    LET points == heatDir.files[HeatmapPage(name)].data
    IN  {[x |-> points[i].x, y |-> points[i].y] : i \in DOMAIN points}

\* C24: heatmap projection. On every heatmap page the points are those of the
\* object's interactions, each at (round(x - ox + width/2), round(y - oy +
\* height/2)) for its box (x, y, width, height) and the origin (ox, oy) of the
\* object's screenshot record.
C24_Projection ==
    \A name \in ObjectNames :
        (/\ HeatmapPage(name) \in DOMAIN heatDir.files
         /\ INTERACTIONS_FILENAME \in DOMAIN heatDir.files
         /\ SCREENSHOTS_FILENAME \in DOMAIN heatDir.files)
            => LET logs == groupLogs(JSONparse(heatDir.files[INTERACTIONS_FILENAME]), name)
                   shots == JSONparse(heatDir.files[SCREENSHOTS_FILENAME])
               IN  /\ name \in DOMAIN shots
                   /\ pagePoints(name) =
                          {projected(logs[i].boundingBox, shots[name].boundingBox) :
                              i \in DOMAIN logs}

\* the page of the component, whose record has the origin (100, 50), holds the
\* point (50, 45) of the box (140, 90, 20, 10), and the point of a box of odd
\* width and height
C24_Witness ==
    LET name == "TopNavigationMenuComponent"
    IN  /\ HeatmapPage(name) \in DOMAIN heatDir.files
        /\ SCREENSHOTS_FILENAME \in DOMAIN heatDir.files
        /\ JSONparse(heatDir.files[SCREENSHOTS_FILENAME])[name].boundingBox
               = [x |-> 100, y |-> 50]
        /\ [x |-> 50, y |-> 45] \in pagePoints(name)
        /\ [x |-> 4, y |-> 2] \in pagePoints(name)

\* the network report was rendered by the handler that ran last
reportRendered ==
    /\ last.handler = "NetworkOnEnd"
    /\ last.error = "none"
    /\ NETWORK_REPORT_NAME \in DOMAIN netDir.files

pivotOfReport == netDir.files[NETWORK_REPORT_NAME].pivotSection

\* C25: failure pivot with zero failures. When no entry of the merged map has
\* fail > 0 the pivot section of the report is the no-failures message and no
\* table; when some entry has, it is a table whose URL columns are the URLs with
\* fail > 0 and no others.
C25_FailurePivot ==
    reportRendered =>
        LET report == JSONparse(netDir.files[JSON_OUTPUT_NAME])
            failing == {u \in DOMAIN report : report[u].fail > 0}
        IN  IF failing = {}
            THEN /\ ~pivotOfReport.table
                 /\ pivotOfReport.text = "<p>No failures recorded.</p>"
            ELSE /\ pivotOfReport.table
                 /\ pivotOfReport.columns = failing

\* a report of two URLs, of which one has failures: the table has that column only
C25_Witness ==
    /\ reportRendered
    /\ DOMAIN JSONparse(netDir.files[JSON_OUTPUT_NAME]) = URLs
    /\ pivotOfReport.table
    /\ pivotOfReport.columns = {"https://x/y"}
    /\ DOMAIN pivotOfReport.rows # {}

MergedFiles == {JSON_OUTPUT_NAME, INTERACTIONS_FILENAME, SCREENSHOTS_FILENAME}

\* the merged JSON files of `after` are those of `before`, with the same content
mergedKept(before, after) ==
    \A f \in MergedFiles :
        /\ f \in DOMAIN before.files <=> f \in DOMAIN after.files
        /\ f \in DOMAIN before.files => after.files[f] = before.files[f]

\* rendering again, on what the first rendering left, changes nothing
repeatable(once, twice) == twice.dir = once.dir /\ twice.error = once.error

\* C26: rendering is a read-only, repeatable transformation. Generating the
\* network report or the heatmap pages leaves every merged JSON file as it was, and
\* a second rendering of the same merged files leaves the same HTML files.
C26_RenderReadOnly ==
    /\ mergedKept(netDir, generate(netDir).dir)
    /\ repeatable(generate(netDir), generate(generate(netDir).dir))
    /\ mergedKept(heatDir, generateHeatmaps(heatDir).dir)
    /\ repeatable(generateHeatmaps(heatDir), generateHeatmaps(generateHeatmaps(heatDir).dir))
    /\ mergedKept(heatDir, generateHeatmapsFlat(heatDir).dir)
    /\ repeatable(generateHeatmapsFlat(heatDir),
                  generateHeatmapsFlat(generateHeatmapsFlat(heatDir).dir))
    /\ (last.handler = "NetworkOnEnd" /\ last.network.error = "none")
          => mergedKept(last.network.after, netDir)
    /\ (last.handler = "HeatmapOnEnd" /\ last.interactions.error = "none"
                                      /\ last.screenshots.error = "none")
          => mergedKept(last.screenshots.after, heatDir)

\* both reports were rendered from merged files that hold data, and rendering
\* them again gives the files that are there
C26_Witness ==
    /\ NETWORK_REPORT_NAME \in DOMAIN netDir.files
    /\ JSON_OUTPUT_NAME \in DOMAIN netDir.files
    /\ JSONparse(netDir.files[JSON_OUTPUT_NAME]) # EmptyMap
    /\ last.handler = "HeatmapOnEnd"
    /\ last.error = "none"
    /\ HEATMAP_INDEX_NAME \in DOMAIN heatDir.files
    /\ JSONparse(heatDir.files[INTERACTIONS_FILENAME]) # <<>>
    /\ generate(netDir).dir = netDir
    /\ generateHeatmaps(heatDir).dir = heatDir

\* every placeholder of the template replaced by its value as it is, in one pass
filled(template, values) ==
    flatten([i \in DOMAIN template |->
                IF template[i] \in DOMAIN values THEN values[template[i]]
                ELSE <<template[i]>>])

section(tag, placeholder, value) ==
    filled(templateOf(tag, placeholder), placeholder :> value)

literalReport(rows) ==
    filled(MainTemplate,
        ("{{style}}" :> StyleContent)
        @@ ("{{chartSection}}" :> section("chart", "{{chartData}}", chartDataText(rows)))
        @@ ("{{summarySection}}" :>
                section("summary", "{{summaryRows}}", summaryRowsText(rows)))
        @@ ("{{domainSection}}" :>
                section("domain", "{{domainAccordions}}", domainAccordionsText(rows)))
        @@ ("{{pivotSection}}" :>
                section("failures-by-test", "{{pivotTable}}", pivotTableText(rows)))
        @@ ("{{chartJs}}" :> ChartJs)
        @@ ("{{sortJs}}" :> SortJs))

\* C27: literal template substitution. The rendered report is the template with
\* each placeholder replaced by its value exactly as given, whatever the value:
\* no $-pattern of a value is interpreted, and nothing inside a substituted value
\* is substituted by a later step.
C27_LiteralSubstitution ==
    reportHtml # <<>> => reportHtml = literalReport(reportUrls)

\* the events of the call, by kind
eventsOf(ev) == SelectSeq(rcall.trace, LAMBDA e : e.ev = ev)
invocations == eventsOf("invoke")
settled == rcall.pc \in {"returned", "threw"}

\* the call of a method decorated with Retry, retry enabled, attempts >= 1
retrying(kind) ==
    /\ rcall.pc # "none"
    /\ rcall.kind = kind
    /\ RETRY_ENABLED
    /\ rcall.attempts >= 1

onSuccessCalls == eventsOf("onSuccess")
onFailureCalls == eventsOf("onFailure")

\* C29: APIRetry hooks. In one call with retry enabled, onSuccess is fired at most
\* once and only after an invocation of the original method succeeded; onFailure
\* is fired once, and only, when all attempts failed; the two are never both fired;
\* and after an invocation that succeeded the original method is not invoked
\* again, also when a hook throws.
C29_ApiRetryHooks ==
    retrying("APIRetry") =>
        LET t == rcall.trace
        IN  /\ Len(onSuccessCalls) <= 1
            /\ \A i \in DOMAIN t :
                  t[i].ev = "onSuccess" =>
                      i > 1 /\ t[i - 1].ev = "invoke" /\ t[i - 1].ok
            /\ Len(onFailureCalls) <= 1
            /\ onFailureCalls # <<>> =>
                  /\ Len(invocations) = rcall.attempts
                  /\ \A i \in DOMAIN invocations : ~invocations[i].ok
            /\ (/\ settled
                /\ "onFailure" \in rcall.hooks
                /\ Len(invocations) = rcall.attempts
                /\ \A i \in DOMAIN invocations : ~invocations[i].ok)
                  => Len(onFailureCalls) = 1
            /\ ~(onSuccessCalls # <<>> /\ onFailureCalls # <<>>)
            /\ \A i, j \in DOMAIN t :
                  (i < j /\ t[i].ev = "invoke" /\ t[i].ok) => t[j].ev # "invoke"

\* a step in which the monitored test of worker w concludes
concludes(w) == wstate[w] = "running" /\ wstate'[w] = "concluded" /\ monitored[w]

\* the URLs the concluding test recorded, and those it recorded a failure for
ownPart(w) == {u \in URLs : heard[w][u].success + heard[w][u].fail > 0}
ownFailed(w) == {u \in URLs : heard[w][u].fail > 0}

\* C30: per-test isolation of the failure artifact; when a monitored test
\* concludes, the per-test map holds exactly what that test recorded (each URL
\* with the test's own counts, every failure under the test's name) and none of
\* it is in the worker's map yet; the attachment is made exactly when the test
\* recorded a failure, over exactly the URLs it failed on with its counts, and
\* the worker's map is not touched before the attachment is made
C30_PerTestIsolation ==
    [][\A w \in Workers :
          concludes(w) =>
              LET found == testStats[w]
                  body == failedStatsObj(found)
                  attached == pendingFold'[w] = pendingFold[w] + 1
              IN  /\ DOMAIN found = ownPart(w)
                  /\ \A u \in DOMAIN found :
                        /\ found[u].success = heard[w][u].success
                        /\ found[u].fail = heard[w][u].fail
                        /\ \A i \in DOMAIN found[u].failures :
                              found[u].failures[i].testName = title[w]
                  /\ \A u \in DOMAIN requestTracker[w] :
                        \A i \in DOMAIN requestTracker[w][u].failures :
                            requestTracker[w][u].failures[i].testName # title[w]
                  /\ attached <=> ownFailed(w) # {}
                  /\ attached =>
                        /\ DOMAIN body = ownFailed(w)
                        /\ requestTracker'[w] = requestTracker[w]
                  /\ ~attached =>
                        requestTracker'[w] = mergeTestIntoWorker(requestTracker[w], found)
      ]_vars

\* the network maps of a state: the per-test and worker-wide maps of every
\* worker, and the content of every worker-tagged and merged file that parses
networkFiles ==
    {f \in DOMAIN netDir.files :
        (isWorkerNetFile(f) \/ f = JSON_OUTPUT_NAME) /\ parses(netDir.files[f])}
networkMaps ==
    {testStats[w] : w \in Workers} \cup {requestTracker[w] : w \in Workers}
        \cup {JSONparse(netDir.files[f]) : f \in networkFiles}

consistentStats(s) ==
    /\ s.success >= 0
    /\ s.fail >= 0
    /\ s.fail = Len(s.failures)
    /\ \A i \in DOMAIN s.failures : s.failures[i].responseCode >= FAIL_FROM

\* C31: in every state of the network pipeline, in the per-test map, the
\* worker-wide map, the worker-tagged files and the merged file, every URL's
\* fail counter is the length of its failures list, every failure entry has a
\* response code of 400 or more, and neither counter is negative
C31_CountersMatchFailures ==
    \A m \in networkMaps : \A u \in DOMAIN m : consistentStats(m[u])

\* the merged file holds a URL with two failures, added from two entries
C31_Witness ==
    /\ JSON_OUTPUT_NAME \in networkFiles
    /\ \E u \in DOMAIN JSONparse(netDir.files[JSON_OUTPUT_NAME]) :
          LET s == JSONparse(netDir.files[JSON_OUTPUT_NAME])[u]
          IN  s.fail = 2 /\ Len(s.failures) = 2
    /\ \E w \in Workers : \E u \in DOMAIN requestTracker[w] : requestTracker[w][u].fail >= 1

\* an aggregation that aborted after it had processed at least one worker file
abortedMidway(run) ==
    /\ ran(run)
    /\ run.error # "none"
    /\ run.before.exists
    /\ firstCorrupt(run.before, run.files) >= 2

\* the file is on disk after the run as it was before it, or the run wrote the
\* merged file of its kind
recoverable(k, f) ==
    \/ /\ f \in DOMAIN k.run.after.files
       /\ k.run.after.files[f] = k.run.before.files[f]
    \/ /\ k.run.wrote
       /\ k.target \in DOMAIN k.run.after.files

\* C32: no data is lost by an aborted aggregation. After an aggregation that
\* aborted once it had processed some worker files, every worker file that was
\* there before it is still on disk or its contents are in the merged file.
C32_AbortLosesNothing ==
    \A k \in KindRuns :
        abortedMidway(k.run) => \A f \in Range(k.run.files) : recoverable(k, f)

\* the logical objects of a list of interactions
namesOf(logs) == {logs[i].pageObjectName : i \in DOMAIN logs}

RECURSIVE sumOf(_)
sumOf(f) ==
    IF DOMAIN f = {} THEN 0
    ELSE LET k == CHOOSE k \in DOMAIN f : TRUE
         IN  f[k] + sumOf([j \in DOMAIN f \ {k} |-> f[j]])

pageBoxes == {pageEvents[i].boundingBox : i \in DOMAIN pageEvents}
withBox(b) == {i \in DOMAIN pageEvents : pageEvents[i].boundingBox = b}

\* the points of the rendered page that lie where the claim puts the box
pointsAt(b) ==
    {i \in DOMAIN page.points :
        /\ page.points[i].x = projected(b, [x |-> 0, y |-> 0]).x
        /\ page.points[i].y = projected(b, [x |-> 0, y |-> 0]).y}

\* C34: per-distinct-box weighting. The page of an object has exactly one point
\* per distinct bounding box among its interactions; the point's value is the
\* number of interactions with that box, its per-type counts sum to its value,
\* and the values of all points sum to the number of interactions of the object.
C34_PerBoxWeighting ==
    page.rendered =>
        /\ Len(page.points) = Cardinality(pageBoxes)
        /\ \A b \in pageBoxes :
              /\ Cardinality(pointsAt(b)) = 1
              /\ \A i \in pointsAt(b) :
                    /\ page.points[i].value = Cardinality(withBox(b))
                    /\ \A t \in DOMAIN page.points[i].counts :
                          page.points[i].counts[t] =
                              Cardinality({j \in withBox(b) : pageEvents[j].type = t})
        /\ \A i \in DOMAIN page.points :
              sumOf(page.points[i].counts) = page.points[i].value
        /\ sumOf([i \in DOMAIN page.points |-> page.points[i].value]) = Len(pageEvents)

\* a page of three interactions on two boxes, one box clicked and filled
C34_Witness ==
    /\ page.rendered
    /\ Len(pageEvents) = 3
    /\ Len(page.points) = 2
    /\ \E i \in DOMAIN page.points :
          /\ page.points[i].value = 2
          /\ DOMAIN page.points[i].counts = InteractionTypes

entriesOfTest(report, t, u) ==
    {i \in DOMAIN report[u].failures : report[u].failures[i].testName = t}

\* C35: failure pivot cell counts. In the rendered pivot there is one row per
\* test name that occurs in a failure entry, the cell of test t and failing URL
\* u is the number of failure entries of u with that test name, and the cells of
\* column u sum to the fail counter of u.
C35_PivotCells ==
    (pivot.built /\ pivot.section.table) =>
        LET rows == pivot.section.rows
            columns == pivot.section.columns
        IN  /\ DOMAIN rows = failedTests(pivotReport)
            /\ \A t \in DOMAIN rows : \A u \in columns :
                  rows[t][u] = Cardinality(entriesOfTest(pivotReport, t, u))
            /\ \A u \in columns :
                  sumOf([t \in DOMAIN rows |-> rows[t][u]]) = pivotReport[u].fail

\* C36: locator resolution of the Interaction decorator. A call whose first
\* argument is not a locator and whose property name does not give a locator
\* throws before the method is executed, with no screenshot and no log entry; a
\* call whose first argument is a locator tracks that locator, whatever the
\* property name gives.
C36_LocatorResolution ==
    \A c \in DOMAIN calls :
        /\ (~calls[c].first /\ calls[c].override # "locator") =>
              /\ calls[c].pc = "threw"
              /\ calls[c].error = "NotALocator"
              /\ calls[c].trace = <<>>
              /\ \A i \in DOMAIN interactionLogs[calls[c].worker] :
                    interactionLogs[calls[c].worker][i].locator # c
        /\ calls[c].first => calls[c].target = "args[0]"
        /\ (~calls[c].first /\ calls[c].override = "locator") =>
              calls[c].target = "this[locatorPropName]"

\* a call with a locator as first argument and a property that gives a locator
\* was logged, and a call with neither threw
C36_Witness ==
    \E c, d \in DOMAIN calls :
        /\ calls[c].first /\ calls[c].override = "locator"
        /\ "log" \in Range(calls[c].trace)
        /\ ~calls[d].first /\ calls[d].override = "notLocator"
        /\ calls[d].pc = "threw"

\* C37: session validity is sticky. Once validateSession has returned false for
\* a user, every later validateSession call for that user returns false, until
\* saveSession or restoreSession initialises the user's session again.
C37_StickyInvalid ==
    (lastCall.op = "validateSession" /\ lastCall.refusedBefore) => ~lastCall.result

\* C38: one session manager per worker process. The first getSessionManager
\* call of a process constructs a SessionManager for the worker index it is
\* given, worker index 0 included, and every later call returns that same
\* instance whatever its argument.
C38_SingletonPerWorker ==
    lastCall.op = "getSessionManager" =>
        /\ ~lastCall.threw
        /\ lastCall.returned = sessionManager
        /\ sessionManager # Null
        /\ (lastCall.before = Null => lastCall.returned.workerIndex = lastCall.workerIndex)
        /\ (lastCall.before # Null => lastCall.returned = lastCall.before)

\* C39: the retry decorators always run the method. For every configured
\* attempts value, 0 and negative values included, a call of a method decorated
\* with Retry or APIRetry invokes the original method at least once, and when
\* the call throws, the thrown value is the error of one of the invocations of
\* the original method, never undefined.
C39_AlwaysRunsMethod ==
    (rcall # NoCall /\ rcall.pc \in {"returned", "threw"}) =>
        /\ \E i \in DOMAIN rcall.trace : rcall.trace[i].ev = "invoke"
        /\ rcall.pc = "threw" =>
              \E i \in DOMAIN rcall.trace :
                  /\ rcall.trace[i].ev = "invoke"
                  /\ ~rcall.trace[i].ok
                  /\ rcall.error = Thrown("method", rcall.trace[i].attempt)

\* a path the sandbox is meant to refuse: it leads out of the workspace, or one
\* of its existing components is a symbolic link
unsafeEntry(fs, target) ==
    \/ ~InsideWs(walk(fs, <<>>, resolve(target)).path)
    \/ throughSymlink(fs, resolve(target))

\* C40: folder clean-up is safe and total. For every list of paths,
\* cleanUpFolders deletes only entries that are inside the workspace and reached
\* through no symbolic link, leaves the disk as it is for every unsafe entry,
\* goes on to the remaining entries after an unsafe or failing one, and throws
\* nothing.
C40_SafeAndTotal ==
    fsLast.op = "cleanUpFolders" =>
        /\ fsLast.error = "none"
        /\ Len(fsLast.result) = Len(fsLast.paths)
        /\ \A i \in DOMAIN fsLast.result :
              LET e == fsLast.result[i]
              IN  /\ e.target = fsLast.paths[i]
                  /\ unsafeEntry(e.before, e.target) => e.after = e.before
                  /\ (~unsafeEntry(e.before, e.target) /\ i \notin fsLast.failing)
                        => ~existsSync(e.after, resolve(e.target))
                  /\ i \in fsLast.failing => e.after = e.before

====
